---- MODULE Spec2Model ----
(***************************************************************************)
(* A model of the PyCNC command interpreter (cnc/gmachine.py), its         *)
(* coordinate vector (cnc/coordinates.py), the accessors of a parsed       *)
(* g-code line (cnc/gcode.py) and the movement parameters of the linear    *)
(* pulse generator (cnc/pulses.py).                                        *)
(*                                                                         *)
(* Numbers.  The program computes with floats that Coordinates rounds to   *)
(* 10 decimals.  The model computes with exact integers:                   *)
(*   - a coordinate on axis k is a count of sub-steps, Sub sub-steps to    *)
(*     one motor step of that axis (1 / STEPPER_PULSES_PER_MM_k mm);       *)
(*   - a coordinate value of a g-code line is a count of 1/VALUE_DEN mm;   *)
(*   - convertCoordinates is kept in tenths (10 for 1.0, 254 for 25.4);    *)
(*   - velocities are whole mm per minute.                                 *)
(* With Sub = 10 and VALUE_DEN = 4 every value converts exactly to         *)
(* sub-steps on every axis, in millimetres and in inches.                  *)
(***************************************************************************)
EXTENDS Integers, Sequences, FiniteSets, TLC

VARIABLES
    position,               \* GMachine._position
    local,                  \* GMachine._local (the frame offset)
    aliased,                \* _local and _position are one object (G92 without coordinates)
    absoluteCoordinates,    \* GMachine._absoluteCoordinates
    convertCoordinates,     \* GMachine._convertCoordinates, in tenths
    plane,                  \* GMachine._plane
    velocity,               \* GMachine._velocity (the feed rate)
    heaters,                \* GMachine._heaters: heater -> target temperature
    running,                \* heater -> controllers (cnc.heater.Heater) started and not stopped
    fan_state,              \* GMachine._fan_state
    tu,                     \* cnc.config.tu, the tool position kept by the linear generator
    height_carriage_mm,     \* cnc.config.height_carriage_mm
    AUTO_VELOCITY_ADJUSTMENT, \* PulseGenerator.AUTO_VELOCITY_ADJUSTMENT
    call,                   \* the method that has just returned, "" once the caller took the result
    line,                   \* the g-code line of that call
    result,                 \* how that call ended: "none", "ok", "error", "crash"
    error,                  \* the message of the GMachineException of that call
    answer,                 \* what that call returned
    log,                    \* the collaborator calls of that call, in order
    ncmd,                   \* calls made so far
    text,                   \* the line given to GCode.parse_line, a sequence of characters
    parsed,                 \* what parse_line(text) returned or raised
    got,                    \* what GCode.get returned or raised for a word of parsed
    aabb,                   \* a call c.is_in_aabb(p1, p2): c, p1, p2 and what it returned
    generator,              \* the PulseGeneratorLinear object being consumed
    element,                \* what the last next() of it returned or raised
    yielded,                \* elements it returned since __iter__
    hal                     \* the locals of the hal.move that consumes it

\* the variables of the interpreter
gmachine == <<position, local, aliased, absoluteCoordinates, convertCoordinates,
              plane, velocity, heaters, running, fan_state, tu, height_carriage_mm,
              AUTO_VELOCITY_ADJUSTMENT,
              call, line, result, error, answer, log, ncmd>>

\* the variables of the parser
parser == <<text, parsed, got>>

\* the variables of the calls made to one function or object on its own
\* the variables of an iteration over a pulse generator
pulses == <<generator, element, yielded, hal>>

apart == <<parser, aabb, pulses>>

vars == <<gmachine, apart>>

machine == <<position, local, absoluteCoordinates, convertCoordinates,
             plane, velocity, heaters, fan_state>>

-----------------------------------------------------------------------------
(* Bounds of the model. *)

MaxCmds == 3
MaxProbe == 1

\* Calls of G93 that are followed pass by pass
MaxHomings == 1
MaxLen == 4
MaxMoves == 2
MaxPasses == 2

-----------------------------------------------------------------------------
(* Resolution of the model's numbers. *)

Sub == 10
VALUE_DEN == 4
SCALE_DEN == 10

-----------------------------------------------------------------------------
(* cnc/config.py *)

distance_pivot_FFF_nozzle == 0
radius_heatbed == 263
height_pivot_tool_mm == 22
length_arm == 400
distance_pivot_tool_mm == 40
TABLE_SIZE_Z_MM == 455
TABLE_SIZE_RADIUS_MM == 180
MAX_ROTATION_N_MM == 360
MAX_TILT_ANGLE == 90

MAX_VELOCITY_MM_PER_MIN_X == 6000
MAX_VELOCITY_MM_PER_MIN_Y == 6000
MAX_VELOCITY_MM_PER_MIN_Z == 6000
MAX_VELOCITY_MM_PER_MIN_E == 1500
MAX_VELOCITY_MM_PER_MIN_Q == 3000
MAX_VELOCITY_MM_PER_MIN_N == 600
MAX_VELOCITY_MM_PER_MIN_A == 800
MAX_VELOCITY_MM_PER_MIN_B == 800
MIN_VELOCITY_MM_PER_MIN == 1

STEPPER_PULSES_PER_MM_X == 100
STEPPER_PULSES_PER_MM_Y == 100
STEPPER_PULSES_PER_MM_Z == 100
STEPPER_PULSES_PER_MM_E == 150
STEPPER_PULSES_PER_MM_Q == 100
STEPPER_PULSES_PER_MM_N == 80
STEPPER_PULSES_PER_MM_A == 444
STEPPER_PULSES_PER_MM_B == 356

STEPPER_MAX_ACCELERATION_MM_PER_S2 == 3000
EXTRUDER_MAX_TEMPERATURE == 250
BED_MAX_TEMPERATURE == 100
MIN_TEMPERATURE == 40
AUTO_FAN_ON == TRUE

SECONDS_IN_MINUTE == 60

Axes == {"x", "y", "z", "e", "q", "n", "a", "b"}

MAX_VELOCITY_MM_PER_MIN ==
    [x |-> MAX_VELOCITY_MM_PER_MIN_X, y |-> MAX_VELOCITY_MM_PER_MIN_Y,
     z |-> MAX_VELOCITY_MM_PER_MIN_Z, e |-> MAX_VELOCITY_MM_PER_MIN_E,
     q |-> MAX_VELOCITY_MM_PER_MIN_Q, n |-> MAX_VELOCITY_MM_PER_MIN_N,
     a |-> MAX_VELOCITY_MM_PER_MIN_A, b |-> MAX_VELOCITY_MM_PER_MIN_B]

STEPPER_PULSES_PER_MM ==
    [x |-> STEPPER_PULSES_PER_MM_X, y |-> STEPPER_PULSES_PER_MM_Y,
     z |-> STEPPER_PULSES_PER_MM_Z, e |-> STEPPER_PULSES_PER_MM_E,
     q |-> STEPPER_PULSES_PER_MM_Q, n |-> STEPPER_PULSES_PER_MM_N,
     a |-> STEPPER_PULSES_PER_MM_A, b |-> STEPPER_PULSES_PER_MM_B]

-----------------------------------------------------------------------------
(* Integer helpers. *)

Abs(v) == IF v < 0 THEN -v ELSE v

Sign(v) == IF v < 0 THEN -1 ELSE IF v > 0 THEN 1 ELSE 0

Min2(u, v) == IF u <= v THEN u ELSE v

Max2(u, v) == IF u >= v THEN u ELSE v

\* Numbers up to 2^46 are kept as <<hi, lo>> = hi * WB + lo, 0 <= lo < WB.
WB == 32768

\* u * v for 0 <= u, v < 2^23
WMul(u, v) ==
    LET u1 == u \div WB
        u0 == u % WB
        v1 == v \div WB
        v0 == v % WB
        l  == u0 * v0
    IN  <<u1 * v1 * WB + u1 * v0 + u0 * v1 + l \div WB, l % WB>>

WAdd(p, r) == <<p[1] + r[1] + (p[2] + r[2]) \div WB, (p[2] + r[2]) % WB>>

WLeq(p, r) == p[1] < r[1] \/ (p[1] = r[1] /\ p[2] <= r[2])

\* floor(sqrt(n)) by Newton's iteration from above, for 0 <= n < 2^30
RECURSIVE ISqrtFrom(_, _)
ISqrtFrom(n, r) ==
    LET y == (r + n \div r) \div 2
    IN  IF y >= r THEN r ELSE ISqrtFrom(n, y)

ISqrt(n) == IF n = 0 THEN 0 ELSE ISqrtFrom(n, 32768)

\* floor(s / d) for a wide s and 0 < d < 2^23, the quotient below 2^31:
\* long division, the low part taken five bits at a time
WDiv(s, d) ==
    LET r3 == s[1] % d
        t2 == r3 * 32 + (s[2] \div 1024)
        t1 == (t2 % d) * 32 + ((s[2] \div 32) % 32)
        t0 == (t1 % d) * 32 + (s[2] % 32)
    IN  (((s[1] \div d) * 32 + (t2 \div d)) * 32 + (t1 \div d)) * 32 + (t0 \div d)

\* floor(sqrt(s)) by Newton's iteration from r >= sqrt(s)
RECURSIVE WSqrtFrom(_, _)
WSqrtFrom(s, r) ==
    LET y == (r + WDiv(s, r)) \div 2
    IN  IF y >= r THEN r ELSE WSqrtFrom(s, y)

\* floor(sqrt(s)) for a wide s below 2^44
WSqrt(s) ==
    IF s[1] = 0 /\ s[2] = 0 THEN 0
    ELSE WSqrtFrom(s, (ISqrt(s[1]) + 1) * 182)

WCap == 8388607

\* min(floor(u * v / w), WCap) for 0 <= u < 2^24, 0 <= v < 2^23, 0 < w < 2^23:
\* long division, u taken six bits at a time
WMulDiv(u, v, w) ==
    LET t3 == (u \div 262144) * v
        t2 == (t3 % w) * 64 + ((u \div 4096) % 64) * v
        t1 == (t2 % w) * 64 + ((u \div 64) % 64) * v
        t0 == (t1 % w) * 64 + ((u % 64) * v)
    IN  IF u = 0 \/ v = 0 THEN 0
        ELSE IF v \div w > WCap \div u THEN WCap
        ELSE Min2((((t3 \div w) * 64 + (t2 \div w)) * 64 + (t1 \div w)) * 64 + (t0 \div w),
                  WCap)

\* u*u + v*v > w*w
SumSqGt(u, v, w) ==
    IF Abs(u) > Abs(w) \/ Abs(v) > Abs(w) THEN TRUE
    ELSE ~WLeq(WAdd(WMul(Abs(u), Abs(u)), WMul(Abs(v), Abs(v))),
               WMul(Abs(w), Abs(w)))

-----------------------------------------------------------------------------
(* cnc/coordinates.py *)

Coordinates(x, y, z, e, q, n, a, b) ==
    [k \in Axes |-> CASE k = "x" -> x [] k = "y" -> y [] k = "z" -> z
                      [] k = "e" -> e [] k = "q" -> q [] k = "n" -> n
                      [] k = "a" -> a [] OTHER -> b]

Zero == Coordinates(0, 0, 0, 0, 0, 0, 0, 0)

\* v millimetres (or degrees) on axis k, in sub-steps
MM(k, v) == v * STEPPER_PULSES_PER_MM[k] * Sub

is_zero(c) == \A k \in Axes : c[k] = 0

Add(c, d) == [k \in Axes |-> c[k] + d[k]]

Minus(c, d) == [k \in Axes |-> c[k] - d[k]]

\* Python 2 round(v / base) * base with base one motor step: halves go away
\* from zero.  (Where the exact quotient is a half, the float quotient of
\* the program can fall just below it; the properties below do not rest on
\* which neighbour a half goes to.)
RoundStep(v) == Sign(v) * ((2 * Abs(v) + Sub) \div (2 * Sub)) * Sub

\* round() cutting the fraction of a step off
round_truncating(c) == [k \in Axes |-> Sign(c[k]) * (Abs(c[k]) \div Sub) * Sub]

round(c) == [k \in Axes |-> RoundStep(c[k])]

\* a length on axis k as a length in sub-steps of the X axis
ToLenX(k, v) == (v * STEPPER_PULSES_PER_MM_X) \div STEPPER_PULSES_PER_MM[k]

NoPos == 0

\* is_in_aabb bounding the extruders and the bed as well
is_in_aabb_of_all_axes(c, p1, p2) ==
    /\ ~SumSqGt(c.x, ToLenX("y", c.y), Max2(p1.x, p2.x))
    /\ \A k \in {"z", "e", "q", "n", "a", "b"} :
          Min2(p1[k], p2[k]) <= c[k] /\ c[k] <= Max2(p1[k], p2[k])

is_in_aabb(c, p1, p2) ==
    LET max_x == Max2(p1.x, p2.x)
        min_z == Min2(p1.z, p2.z)
        max_z == Max2(p1.z, p2.z)
        min_n == Min2(p1.n, p2.n)
        max_n == Max2(p1.n, p2.n)
        min_a == Min2(p1.a, p2.a)
        max_a == Max2(p1.a, p2.a)
        pos   == IF c.n = min_n THEN 1 ELSE IF c.n = max_n THEN -1 ELSE NoPos
        shift == pos * (MM("x", distance_pivot_tool_mm) + MM("x", distance_pivot_FFF_nozzle))
    IN  IF pos # NoPos
        THEN IF SumSqGt(c.x + shift, ToLenX("y", c.y), max_x) THEN FALSE
             ELSE IF c.z < min_z \/ c.n < min_n \/ c.a < min_a THEN FALSE
             ELSE IF c.z > max_z \/ c.n > max_n \/ c.a > max_a THEN FALSE
             ELSE TRUE
        ELSE IF SumSqGt(c.x, ToLenX("y", c.y), max_x) THEN FALSE
             ELSE IF c.z < min_z \/ c.n < min_n \/ c.a < min_a THEN FALSE
             ELSE IF c.z > max_z \/ c.n > max_n \/ c.a > max_a THEN FALSE
             ELSE TRUE

-----------------------------------------------------------------------------
(* cnc/gcode.py: a parsed line is [cmd, p]: the command token ("" for    *)
(* none) and the letter -> value map of the other letters.                 *)

AxisLetter == [x |-> "X", y |-> "Y", z |-> "Z", e |-> "E", q |-> "Q",
               n |-> "N", a |-> "A", b |-> "B"]

NoCmd == ""

has(g, arg_name) == arg_name \in DOMAIN g.p

get(g, arg_name, default) == IF arg_name \notin DOMAIN g.p THEN default ELSE g.p[arg_name]

\* sub-steps on axis k of one value unit under the multiplier multiply (in tenths)
SubPerValue(k, multiply) ==
    (((STEPPER_PULSES_PER_MM[k] * Sub) \div VALUE_DEN) * multiply) \div SCALE_DEN

\* coordinates() forgetting the multiplier
coordinates_unscaled(g, default, multiply) ==
    [k \in Axes |-> IF has(g, AxisLetter[k])
                    THEN g.p[AxisLetter[k]] * SubPerValue(k, SCALE_DEN)
                    ELSE default[k]]

coordinates(g, default, multiply) ==
    [k \in Axes |-> IF has(g, AxisLetter[k])
                    THEN g.p[AxisLetter[k]] * SubPerValue(k, multiply)
                    ELSE default[k]]

has_coordinates(g) == \E k \in Axes : has(g, AxisLetter[k])

command(g) == g.cmd

-----------------------------------------------------------------------------
(* cnc/pulses.py: the movement parameters PulseGeneratorLinear.__init__   *)
(* computes.  Lengths here are sub-steps of X (micrometres), the unit of   *)
(* X, Y, Z and Q; velocities are mm per minute.                            *)

\* the distance |v| of axis k (sub-steps of k) as a length
Micro(k, v) == WMulDiv(Abs(v), STEPPER_PULSES_PER_MM_X, STEPPER_PULSES_PER_MM[k])

\* sqrt(3) / 2 * (radius_heatbed - distance_pivot_tool_mm), in micrometres
PIVOT_Y_UM == 193124

PivotY == (PIVOT_Y_UM * STEPPER_PULSES_PER_MM_X * Sub) \div 1000

\* the squared horizontal distance between the tool pivot and each carriage
ArmOffsetSq(t) ==
    LET ax == Abs(MM("x", radius_heatbed - distance_pivot_tool_mm) - t.x)
        bx == Abs(MM("x", radius_heatbed - distance_pivot_tool_mm) \div 2 + t.x)
    IN  [a |-> WAdd(WMul(ax, ax), WMul(Abs(t.y), Abs(t.y))),
         b |-> WAdd(WMul(bx, bx), WMul(Abs(PivotY - t.y), Abs(PivotY - t.y))),
         c |-> WAdd(WMul(bx, bx), WMul(Abs(PivotY + t.y), Abs(PivotY + t.y)))]

ArmSq == WMul(MM("x", length_arm), MM("x", length_arm))

\* the tool is near enough to the towers for the squares to be computed
NearArm(t) == Abs(t.x) < MM("x", 2 * length_arm) /\ Abs(t.y) < MM("x", 2 * length_arm)

\* math.sqrt has an argument >= 0 (SqrtDefined), > 0 (SqrtPositive), for the
\* squared offset o of a carriage
SqrtDefined(o) == WLeq(o, ArmSq)

SqrtPositive(o) == ~WLeq(ArmSq, o)

\* sqrt(length_arm^2 - o); 0 stands for the value where math.sqrt raises,
\* which nothing then uses
ArmRise(o) ==
    IF ~SqrtDefined(o) THEN 0
    ELSE IF ArmSq[2] >= o[2] THEN WSqrt(<<ArmSq[1] - o[1], ArmSq[2] - o[2]>>)
    ELSE WSqrt(<<ArmSq[1] - o[1] - 1, ArmSq[2] - o[2] + WB>>)

\* the height of a carriage whose arm rises by r above the tool pivot
Height(t, r) == t.z + MM("z", height_pivot_tool_mm) + r

\* sign(u) * sign(v) * floor(|u| * |v| / w)
SMulDiv(u, v, w) == Sign(u) * Sign(v) * WMulDiv(Abs(u), Abs(v), w)

\* sqrt(u^2 + v^2 + w^2)
Norm3(u, v, w) ==
    WSqrt(WAdd(WAdd(WMul(Abs(u), Abs(u)), WMul(Abs(v), Abs(v))), WMul(Abs(w), Abs(w))))

_adjust_velocity(auto, velocity_mm_min, MAX_INDICATOR) ==
    IF ~auto THEN velocity_mm_min
    ELSE IF velocity_mm_min > MAX_INDICATOR THEN MAX_INDICATOR
    ELSE velocity_mm_min

\* the acceleration in (mm/min)^2 per unit of length
AccelK == (SECONDS_IN_MINUTE * SECONDS_IN_MINUTE * STEPPER_MAX_ACCELERATION_MM_PER_S2)
          \div (STEPPER_PULSES_PER_MM_X * Sub)

\* u^2 as a wide number
WSq(u) == WMul(Abs(u), Abs(u))

\* the heights of the carriages after the move: they are assigned in the
\* order a, b, c, and a math.sqrt that raises leaves the later ones as they
\* were
Heights(tu1, h0, off, rise) ==
    [a |-> IF NearArm(tu1) /\ SqrtDefined(off.a)
           THEN Height(tu1, rise.a) ELSE h0.a,
     b |-> IF NearArm(tu1) /\ SqrtDefined(off.a) /\ SqrtDefined(off.b)
           THEN Height(tu1, rise.b) ELSE h0.b,
     c |-> IF NearArm(tu1) /\ SqrtDefined(off.a) /\ SqrtDefined(off.b) /\ SqrtDefined(off.c)
           THEN Height(tu1, rise.c) ELSE h0.c]

\* no math.sqrt raised
Built(tu1, off) ==
    NearArm(tu1) /\ SqrtDefined(off.a) /\ SqrtDefined(off.b) /\ SqrtDefined(off.c)

\* no division by a zero arm rise
Reach(tu1, off) ==
    NearArm(tu1) /\ SqrtPositive(off.a) /\ SqrtPositive(off.b) /\ SqrtPositive(off.c)

\* distance_mm: carriage travel (signed) and the travel of the other axes
Distance(delta_mm, h0, h1) ==
    [x |-> h1.a - h0.a, y |-> h1.b - h0.b, z |-> h1.c - h0.c,
     e |-> Micro("e", delta_mm.e), q |-> Micro("q", delta_mm.q),
     n |-> Micro("n", delta_mm.n), a |-> Micro("a", delta_mm.a),
     b |-> Micro("b", delta_mm.b)]

\* distance_total
Total(distance_mm) ==
    WSqrt(WAdd(WAdd(WAdd(WSq(distance_mm.x), WSq(distance_mm.y)),
                    WAdd(WSq(distance_mm.z), WSq(distance_mm.e))),
               WAdd(WAdd(WSq(distance_mm.q), WSq(distance_mm.n)),
                    WAdd(WSq(distance_mm.a), WSq(distance_mm.b)))))

\* the velocity of the tool along x, y and z
HeadAxes(delta_mm, velocity_mm_per_min, len3) ==
    IF delta_mm.x = 0 /\ delta_mm.y = 0 /\ delta_mm.z = 0
    THEN [x |-> 0, y |-> 0, z |-> 0]
    ELSE [x |-> SMulDiv(velocity_mm_per_min, delta_mm.x, len3),
          y |-> SMulDiv(velocity_mm_per_min, delta_mm.y, len3),
          z |-> SMulDiv(velocity_mm_per_min, delta_mm.z, len3)]

\* the same, scaled down when the tool would be faster than allowed
HeadAdjusted(auto, axis0, head) ==
    IF head > 0 /\ _adjust_velocity(auto, head, MAX_VELOCITY_MM_PER_MIN_Q) < head
    THEN [x |-> SMulDiv(axis0.x, _adjust_velocity(auto, head, MAX_VELOCITY_MM_PER_MIN_Q), head),
          y |-> SMulDiv(axis0.y, _adjust_velocity(auto, head, MAX_VELOCITY_MM_PER_MIN_Q), head),
          z |-> SMulDiv(axis0.z, _adjust_velocity(auto, head, MAX_VELOCITY_MM_PER_MIN_Q), head)]
    ELSE axis0

\* the velocity of each carriage for the tool velocity axis
Carriage(tu1, rise, axis) ==
    [x |-> SMulDiv(axis.x, MM("x", radius_heatbed - distance_pivot_tool_mm) - tu1.x, rise.a)
           - SMulDiv(tu1.y, axis.y, rise.a) + axis.z,
     y |-> axis.z
           + SMulDiv(axis.x, -(MM("x", radius_heatbed - distance_pivot_tool_mm) \div 2) - tu1.x,
                     rise.b)
           + SMulDiv(axis.y, PivotY - tu1.y, rise.b),
     z |-> axis.z
           + SMulDiv(axis.x, -(MM("x", radius_heatbed - distance_pivot_tool_mm) \div 2) - tu1.x,
                     rise.c)
           + SMulDiv(axis.y, -PivotY - tu1.y, rise.c)]

\* max_velocity_mm_per_sec of a move long enough to reach its velocity
Cruise(auto, velocity_mm_per_min, carriage, distance_mm, total) ==
    [x |-> _adjust_velocity(auto, Abs(carriage.x), MAX_VELOCITY_MM_PER_MIN_X),
     y |-> _adjust_velocity(auto, Abs(carriage.y), MAX_VELOCITY_MM_PER_MIN_Y),
     z |-> _adjust_velocity(auto, Abs(carriage.z), MAX_VELOCITY_MM_PER_MIN_Z),
     e |-> _adjust_velocity(auto, WMulDiv(velocity_mm_per_min, distance_mm.e, total),
                            MAX_VELOCITY_MM_PER_MIN_E),
     q |-> _adjust_velocity(auto, WMulDiv(velocity_mm_per_min, distance_mm.q, total),
                            MAX_VELOCITY_MM_PER_MIN_Q),
     n |-> _adjust_velocity(auto, WMulDiv(velocity_mm_per_min, distance_mm.n, total),
                            MAX_VELOCITY_MM_PER_MIN_N),
     a |-> _adjust_velocity(auto, WMulDiv(velocity_mm_per_min, distance_mm.a, total),
                            MAX_VELOCITY_MM_PER_MIN_A),
     b |-> _adjust_velocity(auto, WMulDiv(velocity_mm_per_min, distance_mm.b, total),
                            MAX_VELOCITY_MM_PER_MIN_B)]

Max8(v) == Max2(Max2(Max2(v.x, v.y), Max2(v.z, v.e)), Max2(Max2(v.q, v.n), Max2(v.a, v.b)))

\* STEPPER_MAX_ACCELERATION * acceleration_time^2 > distance_total
Short(vmax, total) == ~WLeq(WMul(vmax, vmax), WMul(AccelK, total))

\* the velocity an axis reaches over the distance d of a move that is all
\* acceleration and braking
Ramp(d, total) ==
    Sign(d) * (WSqrt(WMul(Abs(d), WMulDiv(Abs(d), 100 * AccelK, total))) \div 10)

\* max_velocity_mm_per_sec of a move too short to reach its velocity
Triangle(distance_mm, total) ==
    [x |-> Ramp(distance_mm.x, total), y |-> Ramp(distance_mm.y, total),
     z |-> Ramp(distance_mm.z, total), e |-> Ramp(distance_mm.e, total),
     q |-> Ramp(distance_mm.q, total), n |-> Ramp(distance_mm.n, total),
     a |-> Ramp(distance_mm.a, total), b |-> Ramp(distance_mm.b, total)]

\* one second, in the microseconds hal.move counts
US == 1000000

\* Coordinates.length
length(c) == Total(c)

\* acceleration_time_s, in microseconds, of a move of length total whose
\* cruising velocities are v1
acceleration_time(v1, total) ==
    IF Short(Max8(v1), total)
    THEN WSqrt(WMul(WMulDiv(total, US, STEPPER_MAX_ACCELERATION_MM_PER_S2), US \div MM("x", 1)))
    ELSE WMulDiv(Max8(v1), US, SECONDS_IN_MINUTE * STEPPER_MAX_ACCELERATION_MM_PER_S2)

\* linear_time_s, in microseconds: linear_distance_mm over the length of
\* max_velocity_mm_per_sec, len
linear_time(v1, total, len) ==
    IF Short(Max8(v1), total) \/ len = 0 THEN 0
    ELSE WMulDiv(total - WDiv(WSq(Max8(v1)), AccelK),
                 SECONDS_IN_MINUTE * (US \div MM("x", 1)), len)

\* The generator, given the values __init__ has computed so far: the
\* cruising velocities v1 and what they were computed from
Generator(delta_mm, tu1, off, h1, distance_mm, total, v1) ==
    IF ~Built(tu1, off) \/ ~Reach(tu1, off) \/ total = 0
    THEN [ok |-> FALSE, tu |-> tu1, height |-> h1, delta |-> delta_mm]
    ELSE [ok |-> TRUE, tu |-> tu1, height |-> h1, delta |-> delta_mm,
          distance |-> distance_mm,
          acceleration_time_s |-> acceleration_time(v1, total),
          linear_time_s |-> linear_time(v1, total, length(v1)),
          max_velocity |-> IF Short(Max8(v1), total)
                           THEN Triangle(distance_mm, total) ELSE v1]

\* ... the travel and the velocity of the tool
GeneratorMoving(delta_mm, velocity_mm_per_min, auto, tu1, off, rise, h1, distance_mm, total, axis) ==
    Generator(delta_mm, tu1, off, h1, distance_mm, total,
              Cruise(auto, velocity_mm_per_min, Carriage(tu1, rise, axis), distance_mm, total))

\* ... the travel, and the tool velocity before it is adjusted
GeneratorTravelling(delta_mm, velocity_mm_per_min, auto, tu1, off, rise, h1, distance_mm, axis0, head) ==
    GeneratorMoving(delta_mm, velocity_mm_per_min, auto, tu1, off, rise, h1, distance_mm,
                    Total(distance_mm), HeadAdjusted(auto, axis0, head))

\* ... the carriage heights after the move
GeneratorRaised(delta_mm, velocity_mm_per_min, h0, auto, tu1, off, rise, h1, axis0) ==
    GeneratorTravelling(delta_mm, velocity_mm_per_min, auto, tu1, off, rise, h1,
                        Distance(delta_mm, h0, h1), axis0, Norm3(axis0.x, axis0.y, axis0.z))

\* ... the arm rises and the length of the tool's path
GeneratorReaching(delta_mm, velocity_mm_per_min, h0, auto, tu1, off, rise, len3) ==
    GeneratorRaised(delta_mm, velocity_mm_per_min, h0, auto, tu1, off, rise,
                    Heights(tu1, h0, off, rise),
                    HeadAxes(delta_mm, velocity_mm_per_min, len3))

\* ... the squared arm offsets
GeneratorOffset(delta_mm, velocity_mm_per_min, h0, auto, tu1, off) ==
    GeneratorReaching(delta_mm, velocity_mm_per_min, h0, auto, tu1, off,
                      [a |-> ArmRise(off.a), b |-> ArmRise(off.b), c |-> ArmRise(off.c)],
                      Norm3(delta_mm.x, delta_mm.y, delta_mm.z))

\* ... the tool accumulator after the move
GeneratorAt(delta_mm, velocity_mm_per_min, h0, auto, tu1) ==
    GeneratorOffset(delta_mm, velocity_mm_per_min, h0, auto, tu1, ArmOffsetSq(tu1))

\* The generator built for delta_mm at velocity_mm_per_min when the tool
\* accumulator is tu0 and the carriages are at h0: ok is FALSE when the
\* construction raises a math error.  Each value __init__ computes is
\* handed on to the definitions above, which use it.
PulseGeneratorLinear(delta_mm, velocity_mm_per_min, tu0, h0, auto) ==
    GeneratorAt(delta_mm, velocity_mm_per_min, h0, auto,
                [x |-> tu0.x + delta_mm.x, y |-> tu0.y + delta_mm.y,
                 z |-> tu0.z + delta_mm.z])

\* cnc/config.py: tu and height_carriage_mm as the module leaves them
tu_start == [x |-> 0, y |-> 0, z |-> MM("z", TABLE_SIZE_Z_MM)]

height_start ==
    [c \in {"a", "b", "c"} |-> Height(tu_start, ArmRise(ArmOffsetSq(tu_start)[c]))]

-----------------------------------------------------------------------------
(* cnc/gmachine.py.  A call works on a frame: the fields of the machine,   *)
(* the generator's globals, the collaborator calls made so far and how the *)
(* call stands ("run", or ended by a GMachineException "error", or by any  *)
(* other exception "crash").  Once a frame is not "run" nothing changes it.*)
(* env holds what the collaborators answer during the call.                *)

NoAnswer == [kind |-> "None"]

Frame ==
    [position |-> position, local |-> local, aliased |-> aliased,
     absoluteCoordinates |-> absoluteCoordinates,
     convertCoordinates |-> convertCoordinates, plane |-> plane,
     velocity |-> velocity, heaters |-> heaters, running |-> running,
     fan_state |-> fan_state,
     tu |-> tu, height |-> height_carriage_mm,
     log |-> <<>>, status |-> "run", error |-> "", answer |-> NoAnswer]

GMachineException(R, message) ==
    IF R.status # "run" THEN R ELSE [R EXCEPT !.status = "error", !.error = message]

\* an exception that is not a GMachineException
OtherException(R) == IF R.status # "run" THEN R ELSE [R EXCEPT !.status = "crash"]

Logged(R, e) == IF R.status # "run" THEN R ELSE [R EXCEPT !.log = Append(@, e)]

\* hal.move calls made so far in this call
Moves(R) == Cardinality({i \in DOMAIN R.log : R.log[i].op = "move"})

\* self._position.a = v, on the object _local may share
SetPositionA(R, v) ==
    [R EXCEPT !.position = [@ EXCEPT !.a = v],
              !.local = IF R.aliased THEN [@ EXCEPT !.a = v] ELSE @]

\* reset() leaving the units as they are
reset_keeping_units(R) ==
    [R EXCEPT !.velocity = MAX_VELOCITY_MM_PER_MIN_N,
              !.local = Zero,
              !.aliased = FALSE,
              !.absoluteCoordinates = TRUE,
              !.plane = "PLANE_XY"]

reset(R) ==
    [R EXCEPT !.velocity = Min2(Min2(Min2(MAX_VELOCITY_MM_PER_MIN_X, MAX_VELOCITY_MM_PER_MIN_Y),
                                     Min2(MAX_VELOCITY_MM_PER_MIN_Z, MAX_VELOCITY_MM_PER_MIN_E)),
                                Min2(Min2(MAX_VELOCITY_MM_PER_MIN_Q, MAX_VELOCITY_MM_PER_MIN_N),
                                     Min2(MAX_VELOCITY_MM_PER_MIN_A, MAX_VELOCITY_MM_PER_MIN_B))),
              !.local = Zero,
              !.aliased = FALSE,
              !.convertCoordinates = SCALE_DEN,
              !.absoluteCoordinates = TRUE,
              !.plane = "PLANE_XY"]

\* _fan setting the field without telling the hardware
_fan_unsent(R, state) == IF R.status # "run" THEN R ELSE [R EXCEPT !.fan_state = state]

_fan(R, state) ==
    IF R.status # "run" THEN R
    ELSE [Logged(R, [op |-> "fan_control", state |-> state]) EXCEPT !.fan_state = state]

\* Heater(temperature, ...): the map keeps the target temperature; 0 is no heater
Heater(temperature) == temperature

NoHeaters == [h \in {"HEATER_EXTRUDER", "HEATER_BED"} |-> 0]

\* Heater.stop() on the controller the map keeps for heater: it stops, if
\* it has not been stopped before
stop(R, heater) ==
    [Logged(R, [op |-> "heater_stop", heater |-> heater])
        EXCEPT !.running[heater] = IF @ > 0 THEN @ - 1 ELSE 0]

\* self._heaters[heater] = Heater(temperature, ...): a new controller runs
start(R, heater, temperature) ==
    [Logged(R, [op |-> "heater_start", heater |-> heater, temperature |-> temperature])
        EXCEPT !.heaters[heater] = Heater(temperature), !.running[heater] = @ + 1]

\* measure() of _heat: read is FALSE when it raises IOError or OSError
measure(R, heater, read) == Logged(R, [op |-> "measure", heater |-> heater, read |-> read])

\* "if heater in self._heaters:" of _heat
stop_kept(R, heater) ==
    IF R.heaters[heater] # 0 THEN [stop(R, heater) EXCEPT !.heaters[heater] = 0] ELSE R

\* "if temperature != 0:" of _heat, R2 the frame before it
heat_up(R2, heater, temperature, wait) ==
    IF temperature = 0 THEN R2
    ELSE IF wait
    THEN Logged(start(IF heater = "HEATER_EXTRUDER" /\ AUTO_FAN_ON THEN _fan(R2, TRUE) ELSE R2,
                      heater, temperature),
                [op |-> "heater_wait", heater |-> heater])
    ELSE start(IF heater = "HEATER_EXTRUDER" /\ AUTO_FAN_ON THEN _fan(R2, TRUE) ELSE R2,
               heater, temperature)

\* _heat starting the new controller without stopping the one it replaces
_heat_keeping_old(R, heater, temperature, wait, env) ==
    IF ~(IF heater = "HEATER_EXTRUDER" THEN env.et ELSE env.bt)
    THEN GMachineException(measure(R, heater, FALSE), "can not measure temperature")
    ELSE heat_up(measure(R, heater, TRUE), heater, temperature, wait)

_heat(R, heater, temperature, wait, env) ==
    IF ~(IF heater = "HEATER_EXTRUDER" THEN env.et ELSE env.bt)
    THEN GMachineException(measure(R, heater, FALSE), "can not measure temperature")
    ELSE heat_up(stop_kept(measure(R, heater, TRUE), heater), heater, temperature, wait)

\* "for h in self._heaters: self._heaters[h].stop()" of release, for one h
stop_if_kept(R, heater) == IF R.heaters[heater] # 0 THEN stop(R, heater) ELSE R

release(R) ==
    Logged(_fan(stop_if_kept(stop_if_kept(R, "HEATER_EXTRUDER"), "HEATER_BED"), FALSE),
           [op |-> "deinit"])

\* GMachine.__init__ for a further instance: the fields of the object are
\* set, the heater controllers of earlier instances keep running, and the
\* dictionaries tu and height_carriage_mm of cnc.config, which
\* PulseGeneratorLinear updates, are not touched
__init__(R) ==
    Logged(reset([R EXCEPT !.position = Coordinates(0, 0, 0, 0, 0, 0, 0, 0),
                           !.velocity = 0,
                           !.fan_state = FALSE,
                           !.heaters = NoHeaters]),
           [op |-> "init"])

\* __get_target_temperature
get_target_temperature(R, heater) == R.heaters[heater]

table == Coordinates(MM("x", TABLE_SIZE_RADIUS_MM), MM("y", TABLE_SIZE_RADIUS_MM),
                     MM("z", TABLE_SIZE_Z_MM), 0, 0, MM("n", MAX_ROTATION_N_MM),
                     MM("a", MAX_TILT_ANGLE), 0)

\* __check_delta testing self._position instead of pos
check_delta_stale(pos0, delta) == is_in_aabb(pos0, Zero, table)

\* TRUE when __check_delta returns, FALSE when it raises
check_delta(pos0, delta) == is_in_aabb(Add(pos0, delta), Zero, table)

\* __check_velocity looking at the five added axes only
check_velocity_added_axes(max_velocity) ==
    ~(\/ max_velocity.e > MAX_VELOCITY_MM_PER_MIN_E
      \/ max_velocity.q > MAX_VELOCITY_MM_PER_MIN_Q
      \/ max_velocity.n > MAX_VELOCITY_MM_PER_MIN_N
      \/ max_velocity.a > MAX_VELOCITY_MM_PER_MIN_A
      \/ max_velocity.b > MAX_VELOCITY_MM_PER_MIN_B)

\* TRUE when __check_velocity returns, FALSE when it raises
check_velocity(max_velocity) ==
    ~(\/ max_velocity.x > MAX_VELOCITY_MM_PER_MIN_X
      \/ max_velocity.y > MAX_VELOCITY_MM_PER_MIN_Y
      \/ max_velocity.z > MAX_VELOCITY_MM_PER_MIN_Z
      \/ max_velocity.e > MAX_VELOCITY_MM_PER_MIN_E
      \/ max_velocity.q > MAX_VELOCITY_MM_PER_MIN_Q
      \/ max_velocity.n > MAX_VELOCITY_MM_PER_MIN_N
      \/ max_velocity.a > MAX_VELOCITY_MM_PER_MIN_A
      \/ max_velocity.b > MAX_VELOCITY_MM_PER_MIN_B)

\* hal.move(gen) returns (TRUE) or raises (FALSE): env.fail is the number of
\* the hal.move call of this call that raises, 0 for none
hal_move(R, env) == env.fail # Moves(R) + 1

\* _move_linear from hal.move on, for the generator gen: R1 is the frame
\* once gen is built
Launch(R, R1, delta, velocity_mm_per_min, env, gen) ==
    IF ~hal_move(R1, env)
    THEN OtherException(Logged(R1, [op |-> "move", start |-> R.position, delta |-> delta,
                                    velocity |-> velocity_mm_per_min,
                                    max_velocity |-> gen.max_velocity]))
    ELSE [Logged(R1, [op |-> "move", start |-> R.position, delta |-> delta,
                      velocity |-> velocity_mm_per_min,
                      max_velocity |-> gen.max_velocity])
             EXCEPT !.position = Add(R.position, delta), !.aliased = FALSE]

\* _move_linear once the generator gen is built: its construction has moved
\* tu and height_carriage_mm
Built_move(R, delta, velocity_mm_per_min, env, gen) ==
    IF ~gen.ok
    THEN OtherException([Logged(R, [op |-> "PulseGeneratorLinear", start |-> R.position,
                                    delta |-> delta, velocity |-> velocity_mm_per_min])
                            EXCEPT !.tu = gen.tu, !.height = gen.height])
    ELSE IF ~check_velocity(gen.max_velocity)
    THEN GMachineException([Logged(R, [op |-> "PulseGeneratorLinear", start |-> R.position,
                                       delta |-> delta, velocity |-> velocity_mm_per_min])
                               EXCEPT !.tu = gen.tu, !.height = gen.height],
                           "out of maximum speed")
    ELSE Launch(R,
                [Logged(R, [op |-> "PulseGeneratorLinear", start |-> R.position,
                            delta |-> delta, velocity |-> velocity_mm_per_min])
                    EXCEPT !.tu = gen.tu, !.height = gen.height],
                delta, velocity_mm_per_min, env, gen)

\* _move_linear handing a delta that is zero to hal.move
Rounded_move_of_zero(R, delta, velocity_mm_per_min, env) ==
    IF is_zero(delta)
    THEN Launch(R, R, delta, velocity_mm_per_min, env, [max_velocity |-> Zero])
    ELSE IF ~check_delta(R.position, delta)
    THEN GMachineException(R, "out of effective area")
    ELSE Built_move(R, delta, velocity_mm_per_min, env,
                    PulseGeneratorLinear(delta, velocity_mm_per_min, R.tu, R.height,
                                         AUTO_VELOCITY_ADJUSTMENT))

\* _move_linear for the rounded delta
Rounded_move(R, delta, velocity_mm_per_min, env) ==
    IF is_zero(delta) THEN R
    ELSE IF ~check_delta(R.position, delta)
    THEN GMachineException(R, "out of effective area")
    ELSE Built_move(R, delta, velocity_mm_per_min, env,
                    PulseGeneratorLinear(delta, velocity_mm_per_min, R.tu, R.height,
                                         AUTO_VELOCITY_ADJUSTMENT))

_move_linear(R, delta0, velocity_mm_per_min, env) ==
    IF R.status # "run" THEN R
    ELSE Rounded_move(R, round(delta0), velocity_mm_per_min, env)

\* sqrt(u^2 + v^2 + w^2) of lengths on x, y, z as a length on q
extrusion(u, v, w) ==
    (Norm3(ToLenX("x", u), ToLenX("y", v), ToLenX("z", w)) * STEPPER_PULSES_PER_MM_Q)
    \div STEPPER_PULSES_PER_MM_X

\* the delta of the first move of safe_zero, to the top of the printer
top_delta(R, x, y, TOP_Z_LOCATION) ==
    IF ~x /\ ~y
    THEN Coordinates(0, 0, TOP_Z_LOCATION, 0, extrusion(0, 0, TOP_Z_LOCATION), 0, 0, 0)
    ELSE IF x /\ ~y
    THEN Coordinates(-R.position.x, 0, TOP_Z_LOCATION, 0,
                     extrusion(R.position.x, 0, TOP_Z_LOCATION), 0, 0, 0)
    ELSE IF y /\ ~x
    THEN Coordinates(0, -R.position.y, TOP_Z_LOCATION, 0,
                     extrusion(0, R.position.y, TOP_Z_LOCATION), 0, 0, 0)
    ELSE Coordinates(-R.position.x, -R.position.y, TOP_Z_LOCATION, 0,
                     extrusion(R.position.x, R.position.y, TOP_Z_LOCATION), 0, 0, 0)

\* and its velocity
top_velocity(x, y) ==
    IF x /\ y
    THEN Min2(Min2(MAX_VELOCITY_MM_PER_MIN_X, MAX_VELOCITY_MM_PER_MIN_Y),
              Min2(MAX_VELOCITY_MM_PER_MIN_Z, MAX_VELOCITY_MM_PER_MIN_Q))
    ELSE Min2(Min2(800, MAX_VELOCITY_MM_PER_MIN_X),
              Min2(Min2(MAX_VELOCITY_MM_PER_MIN_Y, MAX_VELOCITY_MM_PER_MIN_Z),
                   MAX_VELOCITY_MM_PER_MIN_Q))

\* "if n:" of safe_zero
zero_n(R, n, env) ==
    IF n /\ R.status = "run"
    THEN _move_linear(R, Coordinates(0, 0, 0, 0, 0, -R.position.n, 0, 0),
                      MAX_VELOCITY_MM_PER_MIN_N, env)
    ELSE R

\* "if a:" of safe_zero
zero_a(R, a, env) ==
    IF a /\ R.status = "run"
    THEN _move_linear(R, Coordinates(0, 0, 0, 0, 0, 0, -R.position.a, 0),
                      MAX_VELOCITY_MM_PER_MIN_A, env)
    ELSE R

\* safe_zero extruding the height of the retreat only
safe_zero_extruding_height(R, x, y, z, n, a, env) ==
    zero_a(zero_n(_move_linear(R, [top_delta(R, x, y, MM("z", TABLE_SIZE_Z_MM) - R.position.z)
                                      EXCEPT !.q = MM("z", TABLE_SIZE_Z_MM) - R.position.z],
                               top_velocity(x, y), env),
                  n, env),
           a, env)

\* exactly one of the four tests on x and y holds, so one move to the top is
\* made; then N and A go to zero
safe_zero(R, x, y, z, n, a, env) ==
    zero_a(zero_n(_move_linear(R, top_delta(R, x, y, MM("z", TABLE_SIZE_Z_MM) - R.position.z),
                               top_velocity(x, y), env),
                  n, env),
           a, env)

NoLimit == 9999999

_maximum_compatible_vel(x, y, z, e, q, n, a, b) ==
    LET vl0 == IF ~(x \/ y \/ z \/ e \/ q \/ n \/ a \/ b)
               THEN MIN_VELOCITY_MM_PER_MIN ELSE NoLimit
        vl1 == IF x \/ y \/ z
               THEN Min2(Min2(MAX_VELOCITY_MM_PER_MIN_X, MAX_VELOCITY_MM_PER_MIN_Y),
                         Min2(MAX_VELOCITY_MM_PER_MIN_Z, MAX_VELOCITY_MM_PER_MIN_Q))
               ELSE vl0
        vl2 == IF e /\ vl1 > MAX_VELOCITY_MM_PER_MIN_E THEN MAX_VELOCITY_MM_PER_MIN_E ELSE vl1
        vl3 == IF q /\ vl2 > MAX_VELOCITY_MM_PER_MIN_Q THEN MAX_VELOCITY_MM_PER_MIN_Q ELSE vl2
        vl4 == IF n /\ vl3 > MAX_VELOCITY_MM_PER_MIN_N THEN MAX_VELOCITY_MM_PER_MIN_N ELSE vl3
        vl5 == IF a /\ vl4 > MAX_VELOCITY_MM_PER_MIN_A THEN MAX_VELOCITY_MM_PER_MIN_A ELSE vl4
    IN  IF b /\ vl5 > MAX_VELOCITY_MM_PER_MIN_B THEN MAX_VELOCITY_MM_PER_MIN_B ELSE vl5

-----------------------------------------------------------------------------
(* GMachine.do_command: the handlers, one per branch.                      *)

G0(R, g, delta, env) ==
    _move_linear(R, delta,
                 _maximum_compatible_vel(has(g, "X"), has(g, "Y"), has(g, "Z"), has(g, "E"),
                                         has(g, "Q"), has(g, "N"), has(g, "A"), has(g, "B")),
                 env)

G1(R, delta, velocity_mm_per_min, env) == _move_linear(R, delta, velocity_mm_per_min, env)

\* G4 sleeping before it waits for the moves, and taking a P of 0 as bad
G4_sleeping_first(R, g) ==
    IF ~has(g, "P") THEN GMachineException(R, "P is not specified")
    ELSE IF get(g, "P", 0) <= 0 THEN GMachineException(R, "bad delay")
    ELSE Logged(Logged(R, [op |-> "sleep", pause |-> get(g, "P", 0)]), [op |-> "join"])

G4(R, g) ==
    IF ~has(g, "P") THEN GMachineException(R, "P is not specified")
    ELSE IF get(g, "P", 0) < 0 THEN GMachineException(R, "bad delay")
    ELSE Logged(Logged(R, [op |-> "join"]), [op |-> "sleep", pause |-> get(g, "P", 0)])

\* G28 probing before it waits for the moves
calibrate_unjoined(R1, g, env) ==
    IF ~env.calibrate
    THEN GMachineException(
             Logged(R1, [op |-> "calibrate", x |-> has(g, "X"), y |-> has(g, "Y"), z |-> TRUE,
                         returned |-> FALSE]),
             "failed to calibrate")
    ELSE Logged(Logged(R1, [op |-> "calibrate", x |-> has(g, "X"), y |-> has(g, "Y"),
                            z |-> TRUE, returned |-> TRUE]),
                [op |-> "join"])

\* G28 after safe_zero has left frame R1
calibrate(R1, g, env) ==
    IF ~env.calibrate
    THEN GMachineException(
             Logged(Logged(R1, [op |-> "join"]),
                    [op |-> "calibrate", x |-> has(g, "X"), y |-> has(g, "Y"), z |-> TRUE,
                     returned |-> FALSE]),
             "failed to calibrate")
    ELSE Logged(Logged(R1, [op |-> "join"]),
                [op |-> "calibrate", x |-> has(g, "X"), y |-> has(g, "Y"), z |-> TRUE,
                 returned |-> TRUE])

\* axises is (X given, Y given, True, N given, A given): it is never all
\* False, so safe_zero is never called with its defaults
axises(g) ==
    IF <<has(g, "X"), has(g, "Y"), TRUE, has(g, "N"), has(g, "A")>>
           = <<FALSE, FALSE, FALSE, FALSE, FALSE>>
    THEN <<TRUE, TRUE, TRUE, TRUE, TRUE>>
    ELSE <<has(g, "X"), has(g, "Y"), TRUE, has(g, "N"), has(g, "A")>>

G28(R, g, env) ==
    calibrate(safe_zero(R, axises(g)[1], axises(g)[2], axises(g)[3], axises(g)[4],
                        axises(g)[5], env),
              g, env)

\* G92 taking the unnamed axes as 0 instead of their current logical value
G92_rebasing_all(R, g) ==
    IF has_coordinates(g)
    THEN [R EXCEPT !.local = Minus(R.position, coordinates(g, Zero, R.convertCoordinates)),
                   !.aliased = FALSE]
    ELSE [R EXCEPT !.local = R.position, !.aliased = TRUE]

G92(R, g) ==
    IF has_coordinates(g)
    THEN [R EXCEPT !.local = Minus(R.position,
                                   coordinates(g, Minus(R.position, R.local),
                                               R.convertCoordinates)),
                   !.aliased = FALSE]
    ELSE [R EXCEPT !.local = R.position, !.aliased = TRUE]

\* the heat commands testing the bed against the extruder's maximum
HeatCommand_one_maximum(R, c, g, env) ==
    LET heater == IF c = "M104" \/ c = "M109" THEN "HEATER_EXTRUDER" ELSE "HEATER_BED"
        wait == c = "M109" \/ c = "M190"
        t == get(g, "S", 0)
    IN  IF ~has(g, "S") THEN GMachineException(R, "temperature is not specified")
        ELSE IF (t > EXTRUDER_MAX_TEMPERATURE \/ t < MIN_TEMPERATURE) /\ t # 0
             THEN GMachineException(R, "bad temperature")
        ELSE _heat(R, heater, t, wait, env)

HeatCommand(R, c, g, env) ==
    LET heater == IF c = "M104" \/ c = "M109" THEN "HEATER_EXTRUDER" ELSE "HEATER_BED"
        wait == c = "M109" \/ c = "M190"
        t == get(g, "S", 0)
    IN  IF ~has(g, "S") THEN GMachineException(R, "temperature is not specified")
        ELSE IF /\ (\/ ~(/\ ~(heater = "HEATER_EXTRUDER" /\ t > EXTRUDER_MAX_TEMPERATURE)
                         /\ ~(heater = "HEATER_BED" /\ t > BED_MAX_TEMPERATURE))
                    \/ t < MIN_TEMPERATURE)
                /\ t # 0
             THEN GMachineException(R, "bad temperature")
        ELSE _heat(R, heater, t, wait, env)

M105(R, env) ==
    LET R1 == measure(measure(R, "HEATER_EXTRUDER", env.et), "HEATER_BED", env.bt)
    IN  IF ~env.et /\ ~env.bt THEN GMachineException(R1, "can not measure temperature")
        ELSE [R1 EXCEPT !.answer = [kind |-> "temperature", et |-> env.et, bt |-> env.bt]]

M106(R, g) == IF get(g, "S", 1) # 0 THEN _fan(R, TRUE) ELSE _fan(R, FALSE)

M114(R) ==
    [Logged(Logged(R, [op |-> "join"]), [op |-> "join"])
        EXCEPT !.answer = [kind |-> "position", p |-> R.position]]

\* a step of -0.001 degrees, which round() in _move_linear takes to no step
PROBE_STEP_below_grid == Coordinates(0, 0, 0, 0, 0, 0, -(MM("a", 1) \div 1000), 0)

\* Coordinates(0, 0, 0, 0, 0, 0, -0.01, 0): round() in _move_linear takes
\* this value and -0.01 degrees to the same whole number of steps
PROBE_STEP == Coordinates(0, 0, 0, 0, 0, 0, -(MM("a", 1) \div 100), 0)

\* k passes of the loop of G93
RECURSIVE ProbeLoop(_, _, _)
ProbeLoop(R, k, env) ==
    IF k = 0 \/ R.status # "run" THEN R
    ELSE ProbeLoop(_move_linear(R, PROBE_STEP, MAX_VELOCITY_MM_PER_MIN_A, env), k - 1, env)

\* The loop of G93 when the endstop never reads 1, after its first two
\* passes have left frame R2.  The passes that follow repeat the second (the
\* same delta, tool position and carriage heights) until the envelope test
\* refuses one: they are taken in one step, and the refused pass is made.
ProbeForever(R2, env) ==
    IF R2.status # "run" THEN R2
    ELSE ProbeLoop([Logged(R2, [op |-> "moves",
                                count |-> R2.position.a \div (-RoundStep(PROBE_STEP.a)),
                                delta |-> round(PROBE_STEP)])
                       EXCEPT !.position =
                           [@ EXCEPT !.a = R2.position.a % (-RoundStep(PROBE_STEP.a))]],
                   1, env)

\* "while gpio.read(ENDSTOP_PIN_A) == 0": the endstop reads 1 after
\* env.contact passes, or never (env.contact < 0)
probe(R1, env) ==
    IF env.contact < 0 THEN ProbeForever(ProbeLoop(R1, 2, env), env)
    ELSE ProbeLoop(R1, env.contact, env)

\* G93 after the loop has left frame R2
leave_endstop(R2, env) ==
    _move_linear(IF R2.status # "run" THEN R2
                 ELSE [SetPositionA(R2, 0) EXCEPT !.absoluteCoordinates = TRUE],
                 Coordinates(0, 0, 0, 0, 0, 0, MM("a", 45), 0),
                 MAX_VELOCITY_MM_PER_MIN_A, env)

G93(R, env) ==
    leave_endstop(probe(SetPositionA([R EXCEPT !.absoluteCoordinates = FALSE],
                                     MM("a", MAX_TILT_ANGLE)),
                        env),
                  env)

\* the feed rate saved whether or not the command succeeded
save_parameters_always(done, velocity_mm_per_min) ==
    [done EXCEPT !.velocity = velocity_mm_per_min]

\* "save parameters on success": reached only when nothing was raised
save_parameters(done, velocity_mm_per_min) ==
    IF done.status = "run" THEN [done EXCEPT !.velocity = velocity_mm_per_min] ELSE done

\* the command of the line alone
Selected_token_only(g) == command(g)

\* the command do_command selects
Selected(g) == IF command(g) = NoCmd /\ has_coordinates(g) THEN "G1" ELSE command(g)

Known == {"G0", "G1", "G2", "G3", "G4", "G17", "G18", "G19", "G20", "G21", "G28",
          "G53", "G90", "G91", "G92", "M3", "M5", "M2", "M30", "M84", "M104", "M109",
          "M140", "M190", "M105", "M106", "M107", "M111", "M114", NoCmd, "M82", "M83",
          "G93"}

\* "read parameters": delta and velocity of do_command
read_delta(R, g) ==
    IF R.absoluteCoordinates
    THEN Minus(Add(coordinates(g, Minus(R.position, R.local), R.convertCoordinates),
                   R.local),
               R.position)
    ELSE coordinates(g, Zero, R.convertCoordinates)

read_velocity(R, g) == get(g, "F", R.velocity)

\* do_command dispatching without the test of the feed rate
do_command_unchecked(g, done) == save_parameters(done, read_velocity(Frame, g))

\* do_command(g) around the branch it selects: done is the frame that
\* branch leaves when it is given the frame of the call
do_command(g, done) ==
    IF read_velocity(Frame, g) < MIN_VELOCITY_MM_PER_MIN
    THEN GMachineException(Frame, "feed speed too low")
    ELSE save_parameters(done, read_velocity(Frame, g))

-----------------------------------------------------------------------------
(* The lines the model feeds to do_command.  Axis words are in quarter     *)
(* millimetres (X40 is X10), F, S and P in whole units.                    *)

NoWords == [w \in {} |-> 0]

GCode(cmd, p) == [cmd |-> cmd, p |-> p]

\* what parse_line returns for a line without gcode
None == GCode("None", NoWords)

AllAxes(v) == [w \in {"X", "Y", "Z", "E", "Q", "N", "A", "B"} |-> v]

MoveLines ==
    {GCode(NoCmd, ("X" :> 40) @@ ("Y" :> 40) @@ ("Z" :> 44)),
     GCode(NoCmd, AllAxes(4)),
     GCode(NoCmd, AllAxes(404)),
     GCode(NoCmd, "E" :> 1),
     GCode("G1", "X" :> -4),
     GCode("G1", "Z" :> 2000),
     GCode("G1", ("E" :> 1) @@ ("F" :> 1000)),
     GCode("G1", "A" :> 1),
     GCode("G1", ("X" :> 400) @@ ("F" :> 100000)),
     GCode("G1", ("X" :> 4) @@ ("F" :> 0)),
     GCode("G0", "X" :> 600),
     GCode("G0", ("X" :> 4) @@ ("F" :> 2000)),
     GCode("G0", NoWords)}

ModeLines ==
    {GCode(NoCmd, "F" :> 500), GCode(NoCmd, "S" :> 100),
     GCode("G17", NoWords), GCode("G18", NoWords), GCode("G19", NoWords),
     GCode("G20", NoWords), GCode("G21", "F" :> 1000),
     GCode("G53", NoWords), GCode("G90", NoWords), GCode("G90", "F" :> 0),
     GCode("G91", NoWords),
     GCode("G92", NoWords), GCode("G92", AllAxes(400)), GCode("G92", "E" :> 1),
     GCode("M2", NoWords), GCode("M30", "F" :> 700),
     GCode("M82", NoWords), GCode("M83", NoWords)}

HomeLines ==
    {GCode("G28", NoWords), GCode("G28", "X" :> 0), GCode("G28", "N" :> 0),
     GCode("G28", ("X" :> 0) @@ ("Y" :> 0) @@ ("N" :> 0) @@ ("A" :> 0)),
     GCode("G93", NoWords)}

OtherLines ==
    {GCode("G2", "X" :> 4), GCode("G3", "X" :> 4),
     GCode("G4", NoWords), GCode("G4", "P" :> -1), GCode("G4", "P" :> 0),
     GCode("G4", "P" :> 1),
     GCode("M3", NoWords), GCode("M5", NoWords), GCode("M84", NoWords),
     GCode("M104", "S" :> 250), GCode("M104", NoWords), GCode("M104", "S" :> 300),
     GCode("M104", "S" :> 0), GCode("M109", "S" :> 200),
     GCode("M140", "S" :> 40), GCode("M140", "S" :> 200), GCode("M190", "S" :> 20),
     GCode("M105", NoWords), GCode("M106", NoWords), GCode("M106", "S" :> 0),
     GCode("M107", NoWords), GCode("M111", NoWords), GCode("M114", NoWords),
     GCode("G2", ("X" :> 4) @@ ("I" :> 4) @@ ("F" :> 1000)),
     GCode("G3", ("I" :> 4) @@ ("J" :> 4) @@ ("F" :> 1000)),
     GCode("G99", "X" :> 4), GCode("M99", "F" :> 1000)}

Lines == MoveLines \cup ModeLines \cup HomeLines \cup OtherLines

\* what the collaborators answer when nothing goes wrong
Calm == [fail |-> 0, calibrate |-> TRUE, contact |-> 0, et |-> TRUE, bt |-> TRUE]

\* the answers that matter to command c
Envs(c) ==
    CASE c \in {"G0", "G1"} -> {[Calm EXCEPT !.fail = f] : f \in 0..1}
      [] c = "G28" -> {Calm, [Calm EXCEPT !.fail = 1], [Calm EXCEPT !.calibrate = FALSE]}
      [] c = "G93" -> {[Calm EXCEPT !.contact = k] : k \in -1..MaxProbe}
                      \cup {[Calm EXCEPT !.fail = 1]}
      [] c \in {"M104", "M109"} -> {[Calm EXCEPT !.et = e] : e \in BOOLEAN}
      [] c \in {"M140", "M190"} -> {[Calm EXCEPT !.bt = b] : b \in BOOLEAN}
      [] c = "M105" -> {[Calm EXCEPT !.et = e, !.bt = b] : e \in BOOLEAN, b \in BOOLEAN}
      [] OTHER -> {Calm}

-----------------------------------------------------------------------------
(* cnc/pulses.py: iterating a linear generator.  A pulse time of the       *)
(* uniform movement, i / pulses_per_mm / velocity, is kept as the pair     *)
(* <<i, pulses_per_mm * velocity>>; the time an element carries is the     *)
(* least of them, which _to_accelerated_time converts for all its axes.    *)

STEPPER_INVERTED ==
    [x |-> FALSE, y |-> FALSE, z |-> FALSE, e |-> TRUE,
     q |-> FALSE, n |-> FALSE, a |-> FALSE, b |-> FALSE]

\* the axes in the order next() goes through them
AxisOrder == <<"x", "y", "z", "e", "q", "n", "a", "b">>

\* round(abs(v * STEPPER_PULSES_PER_MM)) for a distance v
Pulses(v) == (2 * Abs(v) + Sub) \div (2 * Sub)

\* math.copysign(1, v)
copysign(v) == IF v < 0 THEN -1 ELSE 1

\* _total_pulses_*: x, y and z are the travel of the carriages
total_pulses(gen) ==
    [k \in Axes |-> IF k \in {"x", "y", "z"} THEN Pulses(gen.distance[k])
                    ELSE Pulses(gen.delta[k])]

\* _direction
_direction(gen) ==
    [k \in Axes |-> IF k \in {"x", "y", "z"} THEN copysign(gen.distance[k])
                    ELSE copysign(gen.delta[k])]

\* the object PulseGeneratorLinear.__init__ leaves for the values gen
Constructed(gen) ==
    [state |-> "built", delta |-> gen.delta, total_pulses |-> total_pulses(gen),
     direction |-> _direction(gen), max_velocity |-> gen.max_velocity,
     acceleration_time_s |-> gen.acceleration_time_s, linear_time_s |-> gen.linear_time_s,
     twoVmax_per_a |-> 0,
     iteration |-> [k \in Axes |-> 0], directed |-> FALSE, passes |-> 0]

NoGenerator ==
    [state |-> "", delta |-> Zero, total_pulses |-> Zero, direction |-> Zero,
     max_velocity |-> Zero, acceleration_time_s |-> 0, linear_time_s |-> 0,
     twoVmax_per_a |-> 0, iteration |-> Zero, directed |-> FALSE, passes |-> 0]

\* _2Vmax_per_a, in microseconds, for the greatest axis velocity vmax
TwoVmaxPerA(vmax) ==
    Sign(vmax) * WMulDiv(Abs(vmax), 2 * US,
                         SECONDS_IN_MINUTE * STEPPER_MAX_ACCELERATION_MM_PER_S2)

\* an __iter__ that leaves the counters as they are
iter_once(g) ==
    [g EXCEPT !.state = "iterating", !.passes = @ + 1,
              !.twoVmax_per_a = TwoVmaxPerA(Max8(g.max_velocity))]

\* PulseGenerator.__iter__
iter(g) ==
    [g EXCEPT !.state = "iterating", !.iteration = [k \in Axes |-> 0],
              !.twoVmax_per_a = TwoVmaxPerA(Max8(g.max_velocity)),
              !.directed = FALSE, !.passes = @ + 1]

\* the axes for which __linear gives a time: pulses are left
Pending(g) ==
    {k \in Axes : g.total_pulses[k] # 0 /\ g.iteration[k] < g.total_pulses[k]}

\* __linear divides by a velocity that is zero
DividesByZero(g) == \E k \in Pending(g) : g.max_velocity[k] = 0

\* the sign of the time __linear gives for axis k
TimeSign(g, k) == IF g.iteration[k] = 0 THEN 0 ELSE Sign(g.max_velocity[k])

\* i / pulses_per_mm / velocity without its sign, as a pair
Time(g, k) == <<g.iteration[k], STEPPER_PULSES_PER_MM[k] * Abs(g.max_velocity[k])>>

\* the time of axis j is less than the time of axis k
Earlier(g, j, k) ==
    IF TimeSign(g, j) # TimeSign(g, k) THEN TimeSign(g, j) < TimeSign(g, k)
    ELSE IF TimeSign(g, j) = 0 THEN FALSE
    ELSE IF TimeSign(g, j) > 0
         THEN ~WLeq(WMul(Time(g, k)[1], Time(g, j)[2]), WMul(Time(g, j)[1], Time(g, k)[2]))
         ELSE ~WLeq(WMul(Time(g, j)[1], Time(g, k)[2]), WMul(Time(g, k)[1], Time(g, j)[2]))

\* the axes whose time is not above the least time m
Due(g) == {k \in Pending(g) : \A j \in Pending(g) : ~Earlier(g, j, k)}

\* the first axis of next()'s loop that has the least time
Least(g) ==
    AxisOrder[CHOOSE i \in DOMAIN AxisOrder :
                 /\ AxisOrder[i] \in Due(g)
                 /\ \A j \in 1..i - 1 : AxisOrder[j] \notin Due(g)]

\* math.sqrt(pt_s * self._2Vmax_per_a) has a negative argument
NegativeTime(g) ==
    \E k \in Due(g) : TimeSign(g, k) * Sign(g.twoVmax_per_a) < 0

\* the pseudo time i / pulses_per_mm / velocity of axis k, in microseconds
\* and without its sign
PseudoTime(g, k) == WMulDiv(SECONDS_IN_MINUTE * Time(g, k)[1], US, Time(g, k)[2])

\* p - r for wide numbers p >= r
WSub(p, r) ==
    IF p[2] >= r[2] THEN <<p[1] - r[1], p[2] - r[2]>>
    ELSE <<p[1] - r[1] - 1, p[2] + WB - r[2]>>

\* _to_accelerated_time, the braking: bt is the pseudo braking time
Braking(acc, lin, two, bt) ==
    IF WLeq(WSq(acc), WMul(two, bt)) THEN 2 * acc + lin
    ELSE 2 * acc + lin - WSqrt(WSub(WSq(acc), WMul(two, bt)))

\* _to_accelerated_time, past the acceleration: t is the time of the
\* uniform movement
Uniform(acc, lin, two, t) ==
    IF t - acc - lin <= 0 THEN t ELSE Braking(acc, lin, two, t - acc - lin)

\* _to_accelerated_time for the pseudo time sign * pt_s, in microseconds,
\* where it does not raise
_to_accelerated_time(g, sign, pt_s) ==
    IF sign * g.twoVmax_per_a = 0 \/ WSqrt(WMul(pt_s, Abs(g.twoVmax_per_a))) <= g.acceleration_time_s
    THEN WSqrt(WMul(pt_s, Abs(g.twoVmax_per_a)))
    ELSE Uniform(g.acceleration_time_s, g.linear_time_s, g.twoVmax_per_a,
                 g.acceleration_time_s + sign * pt_s
                 - Sign(g.twoVmax_per_a) * WDiv(WSq(g.acceleration_time_s), Abs(g.twoVmax_per_a)))

\* what next() gives: an element or an exception
NoValues == [k \in Axes |-> <<>>]
NoElement == [kind |-> "", values |-> NoValues]
Raised(exception) == [kind |-> exception, values |-> NoValues]
DirectionElement(g) ==
    [kind |-> "direction",
     values |-> [k \in Axes |-> IF STEPPER_INVERTED[k] THEN -g.direction[k]
                                ELSE g.direction[k]]]
PulseElement(g, due, m) ==
    [kind |-> "pulses", values |-> [k \in Axes |-> IF k \in due THEN m ELSE <<>>]]

\* PulseGenerator.next: the element returned or the exception raised
next_element(g) ==
    IF DividesByZero(g) THEN Raised("ZeroDivisionError")
    ELSE IF ~g.directed THEN DirectionElement(g)
    ELSE IF Pending(g) = {} THEN Raised("StopIteration")
    ELSE IF NegativeTime(g) THEN Raised("ValueError")
    ELSE PulseElement(g, Due(g), <<_to_accelerated_time(g, TimeSign(g, Least(g)),
                                                        PseudoTime(g, Least(g)))>>)

\* PulseGenerator.next: the object afterwards, el being what it gave
next(g, el) ==
    IF el.kind = "direction" THEN [g EXCEPT !.directed = TRUE]
    ELSE IF el.kind = "pulses"
    THEN [g EXCEPT !.iteration = [k \in Axes |-> IF el.values[k] # <<>> THEN @[k] + 1
                                               ELSE @[k]]]
    ELSE IF el.kind = "StopIteration" THEN [g EXCEPT !.state = "exhausted"]
    ELSE [g EXCEPT !.state = "raised"]

-----------------------------------------------------------------------------
(* cnc/hal_virtual.py: move, the consumer of a generator.  Its locals:     *)
(* direction_*, the step counters i*, the last pulse times l* and the      *)
(* greatest time m*, and the assertion that failed, if one did.            *)

NoHal ==
    [direction |-> [k \in Axes |-> 1], i |-> Zero, l |-> NoValues, m |-> 0,
     direction_found |-> FALSE, error |-> ""]

\* the axes whose direction move takes from the direction element
Unpacked == {"x", "y", "z", "e", "q", "n"}

\* direction_* after the direction element el
directions(h, el) ==
    [k \in Axes |->
        IF STEPPER_INVERTED[k]
        THEN -(IF k \in Unpacked THEN el.values[k] ELSE h.direction[k])
        ELSE IF k \in Unpacked THEN el.values[k] ELSE h.direction[k]]

\* the assert on the direction d of axis k; the one of N reads direction_e
DirectionAgrees(d, delta, k) ==
    \/ (IF k = "n" THEN d.e ELSE d[k]) < 0 /\ delta[k] < 0
    \/ d[k] > 0 /\ delta[k] > 0
    \/ delta[k] = 0

\* move, the loop body for a direction element
directed(h, g, el) ==
    [h EXCEPT !.direction_found = TRUE,
              !.direction = directions(h, el),
              !.error = IF \A k \in Axes : DirectionAgrees(directions(h, el), g.delta, k)
                        THEN "" ELSE "AssertionError"]

\* the asserts on the time since the last pulse of each axis
TimeDeltasPositive(h, el) ==
    \A k \in Axes : el.values[k] # <<>> /\ h.l[k] # <<>> => el.values[k][1] - h.l[k][1] > 0

\* the greatest time of an element
MaxTime(el) ==
    Max8([k \in Axes |-> IF el.values[k] # <<>> THEN el.values[k][1] ELSE 0])

\* move, the loop body for a timestamp element
pulsed(h, el) ==
    [h EXCEPT !.i = [k \in Axes |-> IF el.values[k] # <<>> THEN @[k] + h.direction[k]
                                   ELSE @[k]],
              !.l = [k \in Axes |-> IF el.values[k] # <<>> THEN el.values[k] ELSE @[k]],
              !.m = Max2(@, MaxTime(el)),
              !.error = IF TimeDeltasPositive(h, el) THEN ""
                        ELSE "negative or zero time delta detected"]

\* Generator.total_time_s
total_time_s(g) == 2 * g.acceleration_time_s + g.linear_time_s

\* move, after the loop
moved(h, g) ==
    [h EXCEPT !.error =
        IF ~h.direction_found THEN "direction not found"
        ELSE IF \E k \in Axes : h.i[k] * Sub # g.delta[k] THEN "wrong number of pulses"
        ELSE IF h.m > total_time_s(g) THEN "interpolation time or pulses wrong"
        ELSE ""]

\* move: its locals after next(g) has given el
move(h, g, el) ==
    IF el.kind = "direction" THEN directed(h, g, el)
    ELSE IF el.kind = "pulses" THEN pulsed(h, el)
    ELSE IF el.kind = "StopIteration" THEN moved(h, g)
    ELSE [h EXCEPT !.error = el.kind]

-----------------------------------------------------------------------------
(* cnc/gcode.py: parse_line.  A line is a sequence of characters.          *)

Letters == <<"A", "B", "C", "D", "E", "F", "G", "H", "I", "J", "K", "L", "M",
             "N", "O", "P", "Q", "R", "S", "T", "U", "V", "W", "X", "Y", "Z">>

LowerCase == <<"a", "b", "c", "d", "e", "f", "g", "h", "i", "j", "k", "l", "m",
               "n", "o", "p", "q", "r", "s", "t", "u", "v", "w", "x", "y", "z">>

Digits == <<"0", "1", "2", "3", "4", "5", "6", "7", "8", "9">>

Range(f) == {f[i] : i \in DOMAIN f}

\* \s
Space == {" ", "\t", "\n", "\r"}

\* line.upper()
upper(l) ==
    [i \in DOMAIN l |->
        IF l[i] \in Range(LowerCase)
        THEN Letters[CHOOSE k \in DOMAIN LowerCase : LowerCase[k] = l[i]]
        ELSE l[i]]

\* the index at which "\(.*?\)" ends when it starts at i, 0 when it does
\* not match there ("." matches no newline)
Closing(l, i) ==
    IF \E j \in i + 1..Len(l) : l[j] = ")" /\ \A k \in i + 1..j - 1 : l[k] # "\n"
    THEN CHOOSE j \in i + 1..Len(l) :
            l[j] = ")" /\ \A k \in i + 1..j - 1 : l[k] \notin {")", "\n"}
    ELSE 0

\* the index after the match of ";.*" that starts at i
AfterRest(l, i) ==
    IF \E j \in i + 1..Len(l) : l[j] = "\n"
    THEN CHOOSE j \in i + 1..Len(l) : l[j] = "\n" /\ \A k \in i + 1..j - 1 : l[k] # "\n"
    ELSE Len(l) + 1

RECURSIVE clean_from(_, _)
\* re.sub(clean_pattern, '', line) from index i on
clean_from(l, i) ==
    IF i > Len(l) THEN <<>>
    ELSE IF l[i] \in Space THEN clean_from(l, i + 1)
    ELSE IF l[i] = "(" /\ Closing(l, i) # 0 THEN clean_from(l, Closing(l, i) + 1)
    ELSE IF l[i] = ";" THEN clean_from(l, AfterRest(l, i))
    ELSE <<l[i]>> \o clean_from(l, i + 1)

\* only white space removed
clean_spaces(l) == SelectSeq(l, LAMBDA c : c \notin Space)

\* re.sub(clean_pattern, '', line)
clean(l) == clean_from(l, 1)

\* the index at which "[-+]?[0-9.]+" ends when it starts at i, 0 when it
\* does not match there
ValueEnd(l, i) ==
    LET from == IF i <= Len(l) /\ l[i] \in {"-", "+"} THEN i + 1 ELSE i
        run == {j \in from..Len(l) : \A k \in from..j : l[k] \in Range(Digits) \cup {"."}}
    IN  IF run = {} THEN 0 ELSE from + Cardinality(run) - 1

RECURSIVE findall_from(_, _)
\* g_pattern.findall(line) from index i on: the (letter, value) pairs
findall_from(l, i) ==
    IF i > Len(l) THEN <<>>
    ELSE IF l[i] \in Range(Letters) /\ ValueEnd(l, i + 1) # 0
         THEN <<<<l[i], SubSeq(l, i + 1, ValueEnd(l, i + 1))>>>>
              \o findall_from(l, ValueEnd(l, i + 1) + 1)
         ELSE findall_from(l, i + 1)

findall(l) == findall_from(l, 1)

RECURSIVE joined_len(_)
\* len(''.join(["%s%s" % i for i in m]))
joined_len(m) == IF m = <<>> THEN 0 ELSE 1 + Len(m[1][2]) + joined_len(Tail(m))

\* dict(m): the last value of each letter
dict(m) ==
    [c \in {m[i][1] : i \in DOMAIN m} |->
        m[CHOOSE i \in DOMAIN m : m[i][1] = c /\ \A j \in DOMAIN m : m[j][1] = c => j <= i][2]]

\* what parse_line gives: None, a GCode object or a GCodeException
NoParams == [c \in {} |-> <<>>]
NotParsed == [kind |-> "", message |-> "", params |-> NoParams]
ParsedNone == [kind |-> "None", message |-> "", params |-> NoParams]
ParsedGCode(params) == [kind |-> "GCode", message |-> "", params |-> params]
GCodeException(message) == [kind |-> "GCodeException", message |-> message, params |-> NoParams]

\* the tests of parse_line on the pairs found, duplicates let through
checked_last_wins(l, m) ==
    IF m = <<>> THEN GCodeException("gcode not found")
    ELSE IF joined_len(m) # Len(l) THEN GCodeException("extra characters in line")
    ELSE IF "G" \in DOMAIN dict(m) /\ "M" \in DOMAIN dict(m)
         THEN GCodeException("g and m command found")
    ELSE IF "N" \in DOMAIN dict(m) /\ "M" \in DOMAIN dict(m)
         THEN GCodeException("n and m command found")
    ELSE ParsedGCode(dict(m))

\* the tests of parse_line on the pairs found in the cleaned line
checked(l, m) ==
    IF m = <<>> THEN GCodeException("gcode not found")
    ELSE IF joined_len(m) # Len(l) THEN GCodeException("extra characters in line")
    ELSE IF Cardinality(DOMAIN dict(m)) # Len(m)
         THEN GCodeException("duplicated gcode entries")
    ELSE IF "G" \in DOMAIN dict(m) /\ "M" \in DOMAIN dict(m)
         THEN GCodeException("g and m command found")
    ELSE IF "N" \in DOMAIN dict(m) /\ "M" \in DOMAIN dict(m)
         THEN GCodeException("n and m command found")
    ELSE ParsedGCode(dict(m))

\* parse_line on the cleaned, upper-case line
parse_cleaned(l) ==
    IF Len(l) = 0 THEN ParsedNone
    ELSE IF l[1] = "%" THEN ParsedNone
    ELSE checked(l, findall(l))

\* GCode.parse_line
parse_line(l) == parse_cleaned(clean(upper(l)))

RECURSIVE digits_value(_)
\* the number the digits of v spell, the dots passed over
digits_value(v) ==
    IF v = <<>> THEN 0
    ELSE IF v[Len(v)] = "." THEN digits_value(SubSeq(v, 1, Len(v) - 1))
    ELSE 10 * digits_value(SubSeq(v, 1, Len(v) - 1))
         + (CHOOSE d \in DOMAIN Digits : Digits[d] = v[Len(v)]) - 1

RECURSIVE Pow10(_)
Pow10(n) == IF n = 0 THEN 1 ELSE 10 * Pow10(n - 1)

\* what GCode.get gives: a float (num / den) or the ValueError of float()
NotRead == [kind |-> "", num |-> 0, den |-> 1]
ValueError == [kind |-> "ValueError", num |-> 0, den |-> 1]

\* float(v) for a value v that g_pattern matched: a sign, then digits with
\* at most one dot and at least one digit
float(v) ==
    LET body == IF v[1] \in {"-", "+"} THEN Tail(v) ELSE v
        dots == {i \in DOMAIN body : body[i] = "."}
    IN  IF Cardinality(dots) > 1 \/ Cardinality(dots) = Len(body) THEN ValueError
        ELSE [kind |-> "float",
              num |-> (IF v[1] = "-" THEN -1 ELSE 1) * digits_value(body),
              den |-> IF dots = {} THEN 1
                      ELSE Pow10(Len(body) - (CHOOSE i \in dots : TRUE))]

\* GCode.get(arg_name) for a word the line has, multiply = 1.0
get_float(params, arg_name) == float(params[arg_name])

-----------------------------------------------------------------------------
(* The state machine. *)

\* GMachine.__init__, with cnc.config freshly imported
GMachine ==
    /\ position = Coordinates(0, 0, 0, 0, 0, 0, 0, 0)
    /\ local = Zero
    /\ aliased = FALSE
    /\ absoluteCoordinates = TRUE
    /\ convertCoordinates = SCALE_DEN
    /\ plane = "PLANE_XY"
    /\ velocity = MAX_VELOCITY_MM_PER_MIN_N
    /\ heaters = NoHeaters
    /\ running = NoHeaters
    /\ fan_state = FALSE
    /\ tu = tu_start
    /\ height_carriage_mm = height_start
    /\ call = ""
    /\ line = GCode(NoCmd, NoWords)
    /\ result = "none"
    /\ error = ""
    /\ answer = NoAnswer
    /\ log = <<>>
    /\ ncmd = 0

\* no line is with the parser
NoText == text = <<>> /\ parsed = NotParsed /\ got = NotRead

\* a call of is_in_aabb that has not returned
Called(c, p1, p2) == [c |-> c, p1 |-> p1, p2 |-> p2, returned |-> FALSE, inside |-> FALSE]

\* no point is being tested
NoPoint == aabb = Called(Zero, Zero, Zero)

\* no generator is being consumed
NoPulses == generator = NoGenerator /\ element = NoElement /\ yielded = 0 /\ hal = NoHal

Init == GMachine /\ AUTO_VELOCITY_ADJUSTMENT \in BOOLEAN /\ NoText /\ NoPoint /\ NoPulses

\* the call name(g) ends with frame R
Return(name, g, R) ==
    /\ position' = R.position
    /\ local' = R.local
    /\ aliased' = R.aliased
    /\ absoluteCoordinates' = R.absoluteCoordinates
    /\ convertCoordinates' = R.convertCoordinates
    /\ plane' = R.plane
    /\ velocity' = R.velocity
    /\ heaters' = R.heaters
    /\ running' = R.running
    /\ fan_state' = R.fan_state
    /\ tu' = R.tu
    /\ height_carriage_mm' = R.height
    /\ call' = name
    /\ line' = g
    /\ result' = IF R.status = "run" THEN "ok" ELSE R.status
    /\ error' = R.error
    /\ answer' = R.answer
    /\ log' = R.log
    /\ ncmd' = ncmd + 1
    /\ UNCHANGED <<AUTO_VELOCITY_ADJUSTMENT, apart>>

\* a call may start: the machine is idle
Idle == call = "" /\ ncmd < MaxCmds

\* the lines for which do_command selects a command in cs
Selecting(cs) == {g \in Lines : Selected(g) \in cs}

\* do_command(g) ends with frame R
Done(g, R) == Return("do_command", g, R)

\* One action for each branch of do_command.
CmdG0 ==
    /\ Idle
    /\ \E g \in Selecting({"G0"}) : \E env \in Envs("G0") :
          Done(g, do_command(g, G0(Frame, g, read_delta(Frame, g), env)))

CmdG1 ==
    /\ Idle
    /\ \E g \in Selecting({"G1"}) : \E env \in Envs("G1") :
          Done(g, do_command(g, G1(Frame, read_delta(Frame, g), read_velocity(Frame, g), env)))

\* G2 run as the linear move to its end point
CmdG2_as_line ==
    /\ Idle
    /\ \E g \in Selecting({"G2"}) : \E env \in Envs("G1") :
          Done(g, do_command(g, G1(Frame, read_delta(Frame, g), read_velocity(Frame, g), env)))

CmdG2 ==
    /\ Idle
    /\ \E g \in Selecting({"G2"}) :
          Done(g, do_command(g, GMachineException(Frame, "G2 not implemented")))

CmdG3 ==
    /\ Idle
    /\ \E g \in Selecting({"G3"}) :
          Done(g, do_command(g, GMachineException(Frame, "G3 not implemented")))

CmdG4 == Idle /\ \E g \in Selecting({"G4"}) : Done(g, do_command(g, G4(Frame, g)))

CmdG17 ==
    /\ Idle
    /\ \E g \in Selecting({"G17"}) : Done(g, do_command(g, [Frame EXCEPT !.plane = "PLANE_XY"]))

CmdG18 ==
    /\ Idle
    /\ \E g \in Selecting({"G18"}) : Done(g, do_command(g, [Frame EXCEPT !.plane = "PLANE_ZX"]))

CmdG19 ==
    /\ Idle
    /\ \E g \in Selecting({"G19"}) : Done(g, do_command(g, [Frame EXCEPT !.plane = "PLANE_YZ"]))

CmdG20 ==
    /\ Idle
    /\ \E g \in Selecting({"G20"}) :
          Done(g, do_command(g, [Frame EXCEPT !.convertCoordinates = 254]))

CmdG21 ==
    /\ Idle
    /\ \E g \in Selecting({"G21"}) :
          Done(g, do_command(g, [Frame EXCEPT !.convertCoordinates = SCALE_DEN]))

CmdG28 ==
    /\ Idle
    /\ \E g \in Selecting({"G28"}) : \E env \in Envs("G28") :
          Done(g, do_command(g, G28(Frame, g, env)))

CmdG53 ==
    /\ Idle
    /\ \E g \in Selecting({"G53"}) :
          Done(g, do_command(g, [Frame EXCEPT !.local = Zero, !.aliased = FALSE]))

CmdG90 ==
    /\ Idle
    /\ \E g \in Selecting({"G90"}) :
          Done(g, do_command(g, [Frame EXCEPT !.absoluteCoordinates = TRUE]))

CmdG91 ==
    /\ Idle
    /\ \E g \in Selecting({"G91"}) :
          Done(g, do_command(g, [Frame EXCEPT !.absoluteCoordinates = FALSE]))

CmdG92 == Idle /\ \E g \in Selecting({"G92"}) : Done(g, do_command(g, G92(Frame, g)))

CmdM3 ==
    /\ Idle
    /\ \E g \in Selecting({"M3"}) :
          Done(g, do_command(g, GMachineException(Frame, "M3 not implemented")))

CmdM5 ==
    /\ Idle
    /\ \E g \in Selecting({"M5"}) :
          Done(g, do_command(g, GMachineException(Frame, "M5 not implemented")))

CmdM2 == Idle /\ \E g \in Selecting({"M2", "M30"}) : Done(g, do_command(g, reset(Frame)))

CmdM84 ==
    /\ Idle
    /\ \E g \in Selecting({"M84"}) :
          Done(g, do_command(g, Logged(Frame, [op |-> "disable_steppers"])))

CmdHeat ==
    /\ Idle
    /\ \E g \in Selecting({"M104", "M109", "M140", "M190"}) : \E env \in Envs(Selected(g)) :
          Done(g, do_command(g, HeatCommand(Frame, Selected(g), g, env)))

CmdM105 ==
    /\ Idle
    /\ \E g \in Selecting({"M105"}) : \E env \in Envs("M105") :
          Done(g, do_command(g, M105(Frame, env)))

CmdM106 == Idle /\ \E g \in Selecting({"M106"}) : Done(g, do_command(g, M106(Frame, g)))

CmdM107 == Idle /\ \E g \in Selecting({"M107"}) : Done(g, do_command(g, _fan(Frame, FALSE)))

CmdM111 ==
    /\ Idle
    /\ \E g \in Selecting({"M111"}) :
          Done(g, do_command(g, Logged(Frame, [op |-> "debug_enable"])))

CmdM114 == Idle /\ \E g \in Selecting({"M114"}) : Done(g, do_command(g, M114(Frame)))

\* "elif c is None: pass"
CmdNone == Idle /\ \E g \in Selecting({NoCmd}) : Done(g, do_command(g, Frame))

CmdM82 ==
    /\ Idle
    /\ \E g \in Selecting({"M82"}) :
          Done(g, do_command(g, IF ~Frame.absoluteCoordinates
                                THEN GMachineException(Frame, "Not supported, use G90/G91")
                                ELSE Frame))

CmdM83 ==
    /\ Idle
    /\ \E g \in Selecting({"M83"}) :
          Done(g, do_command(g, IF Frame.absoluteCoordinates
                                THEN GMachineException(Frame, "Not supported, use G90/G91")
                                ELSE Frame))

CmdG93 ==
    /\ Idle
    /\ \E g \in Selecting({"G93"}) : \E env \in Envs("G93") :
          Done(g, do_command(g, G93(Frame, env)))

\* an unknown command passed over like a line without command
CmdUnknown_passed ==
    /\ Idle
    /\ \E g \in {l \in Lines : Selected(l) \notin Known} : Done(g, do_command(g, Frame))

\* "else:" of do_command
CmdUnknown ==
    /\ Idle
    /\ \E g \in {l \in Lines : Selected(l) \notin Known} :
          Done(g, do_command(g, GMachineException(Frame, "unknown command")))

\* "if gcode is None: return None"
CmdNull == Idle /\ Done(None, Frame)

\* GMachine.safe_zero() called directly, with its defaults
SafeZero ==
    /\ Idle
    /\ \E env \in Envs("G0") :
          Return("safe_zero", GCode(NoCmd, NoWords),
                 safe_zero(Frame, TRUE, TRUE, TRUE, TRUE, TRUE, env))

\* GMachine.release()
Release == Idle /\ Return("release", GCode(NoCmd, NoWords), release(Frame))

\* GMachine.reset() called directly
Reset == Idle /\ Return("reset", GCode(NoCmd, NoWords), reset(Frame))

\* the caller has taken the result of the call; the machine waits for the next
Await ==
    /\ call # ""
    /\ call' = ""
    /\ line' = GCode(NoCmd, NoWords)
    /\ result' = "none"
    /\ error' = ""
    /\ answer' = NoAnswer
    /\ log' = <<>>
    /\ UNCHANGED <<position, local, aliased, absoluteCoordinates, convertCoordinates,
                   plane, velocity, heaters, running, fan_state, tu, height_carriage_mm,
                   AUTO_VELOCITY_ADJUSTMENT, ncmd, apart>>

Next ==
    \/ CmdG0 \/ CmdG1 \/ CmdG2 \/ CmdG3 \/ CmdG4
    \/ CmdG17 \/ CmdG18 \/ CmdG19 \/ CmdG20 \/ CmdG21
    \/ CmdG28 \/ CmdG53 \/ CmdG90 \/ CmdG91 \/ CmdG92 \/ CmdG93
    \/ CmdM2 \/ CmdM3 \/ CmdM5 \/ CmdM84 \/ CmdHeat \/ CmdM105
    \/ CmdM106 \/ CmdM107 \/ CmdM111 \/ CmdM114 \/ CmdM82 \/ CmdM83
    \/ CmdNone \/ CmdUnknown \/ CmdNull
    \/ SafeZero
    \/ Release
    \/ Reset
    \/ Await

Spec == Init /\ [][Next]_vars

\* GMachine() once more in the same process: a further instance, which the
\* caller uses from now on
New == Idle /\ Return("GMachine", GCode(NoCmd, NoWords), __init__(Frame))

\* moves on one instance after the other
NextInstances == CmdG0 \/ CmdG1 \/ New \/ Await

SpecInstances == Init /\ [][NextInstances]_vars

\* G93 pass by pass: call is "G93" when do_command is at the test of its
\* loop and "G93 move" when it is in the body; log holds what the last pass
\* handed to the hardware
AtEndstop == call = "G93"
Stepping == call = "G93 move"
Homing == AtEndstop \/ Stepping

\* do_command(g) goes on at the place at of G93 with frame R
Within(at, g, R) ==
    /\ position' = R.position
    /\ local' = R.local
    /\ aliased' = R.aliased
    /\ absoluteCoordinates' = R.absoluteCoordinates
    /\ convertCoordinates' = R.convertCoordinates
    /\ plane' = R.plane
    /\ velocity' = R.velocity
    /\ heaters' = R.heaters
    /\ running' = R.running
    /\ fan_state' = R.fan_state
    /\ tu' = R.tu
    /\ height_carriage_mm' = R.height
    /\ call' = at
    /\ line' = g
    /\ result' = "none"
    /\ error' = ""
    /\ answer' = NoAnswer
    /\ log' = R.log
    /\ ncmd' = ncmd
    /\ UNCHANGED <<AUTO_VELOCITY_ADJUSTMENT, apart>>

\* do_command(G93) up to the loop
HomingStart ==
    /\ Idle /\ ncmd < MaxHomings
    /\ \E g \in Selecting({"G93"}) :
          Within("G93", g, SetPositionA([Frame EXCEPT !.absoluteCoordinates = FALSE],
                                        MM("a", MAX_TILT_ANGLE)))

\* gpio.read(ENDSTOP_PIN_A) == 0: the body of the loop is entered
HomingRead == AtEndstop /\ Within("G93 move", line, Frame)

\* the body of the loop: one step, and back to the test unless
\* _move_linear raises
HomingPass ==
    /\ Stepping
    /\ \E env \in Envs("G1") :
          \E R \in {_move_linear(Frame, PROBE_STEP, MAX_VELOCITY_MM_PER_MIN_A, env)} :
             IF R.status = "run" THEN Within("G93", line, R)
             ELSE Done(line, do_command(line, R))

\* gpio.read(ENDSTOP_PIN_A) # 0: the loop is left, and G93 ends
HomingContact ==
    /\ AtEndstop
    /\ \E env \in Envs("G1") : Done(line, do_command(line, leave_endstop(Frame, env)))

\* the caller takes the result once do_command has returned
Taken == ~Homing /\ Await

NextHoming == HomingStart \/ HomingRead \/ HomingPass \/ HomingContact \/ Taken

\* AUTO_VELOCITY_ADJUSTMENT as cnc.config has it
InitHoming ==
    GMachine /\ AUTO_VELOCITY_ADJUSTMENT = TRUE /\ NoText /\ NoPoint /\ NoPulses

SpecHoming == InitHoming /\ [][NextHoming]_vars

-----------------------------------------------------------------------------
(* The parser on its own: parse_line applied to one line, GCode.get to a   *)
(* word of the object it returned.                                         *)

\* the characters the lines are made of
Alphabet == {"G", "M", "N", "X", "x", "1", ".", "-", " ", "(", ")", ";", "%", "\n"}

RECURSIVE Strings(_)
\* the lines of at most n characters
Strings(n) ==
    IF n = 0 THEN {<<>>}
    ELSE Strings(n - 1) \cup {Append(t, c) : t \in Strings(n - 1), c \in Alphabet}

\* longer lines, of the kinds tests/test_gcode.py has
LongLines ==
    {<<"X", "1", ".", "1", ".", "1">>,
     <<"G", "1", "X", "1", "(", "X", ")">>,
     <<"G", "1", " ", "X", "-", "1", ".", "1", " ", ";", "M">>,
     <<"x", " ", "1", " ", "N", " ", "1", " ", "X", " ", "1">>,
     <<"G", "1", "X", ".", "1", "N", "1", ".">>}

Texts == Strings(MaxLen) \cup LongLines

InitParse == GMachine /\ AUTO_VELOCITY_ADJUSTMENT = FALSE
             /\ text \in Texts /\ parsed = NotParsed /\ got = NotRead /\ NoPoint /\ NoPulses

\* GCode.parse_line(text)
Parse ==
    /\ parsed = NotParsed
    /\ parsed' = parse_line(text)
    /\ UNCHANGED <<gmachine, text, got, aabb, pulses>>

\* GCode.get(arg_name) on the object parse_line returned
Get ==
    /\ parsed.kind = "GCode" /\ got = NotRead
    /\ \E arg_name \in DOMAIN parsed.params : got' = get_float(parsed.params, arg_name)
    /\ UNCHANGED <<gmachine, text, parsed, aabb, pulses>>

NextParse == Parse \/ Get

SpecParse == InitParse /\ [][NextParse]_vars

-----------------------------------------------------------------------------
(* Coordinates.is_in_aabb on its own.                                      *)

\* the corners of tests/test_coordinates.py test_aabb
Corner0 == Coordinates(0, 0, 0, 0, 0, 0, 0, 0)
Corner2 == Coordinates(MM("x", 2), MM("y", 2), MM("z", 2), 0, 0, MM("n", 2), 0, 0)

\* the pairs of corners: those of the test and those of __check_delta
Corners == {<<Corner0, Corner2>>, <<Corner2, Corner0>>, <<Zero, table>>, <<table, Zero>>}

\* points with the extruders and the bed away from zero, where both corners
\* have them
Extruding ==
    {Coordinates(MM("x", x), MM("y", 1), MM("z", 1), MM("e", e), MM("q", q), MM("n", n),
                 0, MM("b", b)) :
        x \in {1, 3}, e \in {-1, 0, 1}, q \in 0..1, n \in 1..3, b \in 0..1}

\* the points tested, in mm around the corners of the test, the corner of
\* the table, and the points off the other axes
Points ==
    {Coordinates(MM("x", x), MM("y", y), MM("z", z), 0, 0, MM("n", n), MM("a", a), 0) :
        x \in -1..3, y \in {0, 1, 2, 3}, z \in -1..3, n \in 0..3, a \in 0..1}
    \cup {table}
    \cup Extruding


InitAabb ==
    /\ GMachine /\ AUTO_VELOCITY_ADJUSTMENT = FALSE /\ NoText /\ NoPulses
    /\ \E c \in Points : \E p \in Corners : aabb = Called(c, p[1], p[2])

\* c.is_in_aabb(p1, p2)
IsInAabb ==
    /\ ~aabb.returned
    /\ aabb' = [aabb EXCEPT !.returned = TRUE,
                            !.inside = is_in_aabb(aabb.c, aabb.p1, aabb.p2)]
    /\ UNCHANGED <<gmachine, parser, pulses>>

NextAabb == IsInAabb

SpecAabb == InitAabb /\ [][NextAabb]_vars

-----------------------------------------------------------------------------
(* A linear pulse generator on its own: built for a delta on the step      *)
(* grid, then consumed as hal.move consumes it, "for ... in generator".    *)

\* a fraction 1 / d of v millimetres on axis k
Part(k, v, d) == MM(k, v) \div d

\* the deltas generators are built for
Deltas ==
    {Coordinates(0, 0, 0, Part("e", 1, 25), 0, 0, 0, 0),
     Coordinates(0, 0, 0, 0, 0, 0, -Part("a", 1, 148), 0),
     Coordinates(0, MM("y", 2), 0, 0, 0, 0, 0, 0),
     Coordinates(0, -MM("y", 2), 0, 0, 0, 0, 0, 0),
     Coordinates(0, 0, -MM("z", 1), 0, 0, 0, 0, 0),
     Coordinates(MM("x", 1), 0, -MM("z", 1), -Part("e", 1, 25), 0, 0, Part("a", 1, 148), 0),
     Coordinates(0, 0, -Part("z", 1, 100), Part("e", 1, 75), 0, 0, 0, 0)}

\* the deltas of moves commanded faster than the axes allow
FastDeltas ==
    {Coordinates(0, 0, -Part("z", 1, 20), 0, 0, 0, 0, 0),
     Coordinates(0, 0, 0, Part("e", 3, 10), 0, 0, Part("a", 11, 222), 0)}

Velocities == {600, 6000}

\* the moves generators are built for: a delta and a velocity
Commanded == (Deltas \X {600}) \cup (FastDeltas \X {6000})

InitPulses ==
    /\ GMachine /\ AUTO_VELOCITY_ADJUSTMENT \in BOOLEAN /\ NoText /\ NoPoint /\ NoPulses

\* the frame of the generator's module: tu and height_carriage_mm
Globals == <<tu, height_carriage_mm>>

\* PulseGeneratorLinear(delta_mm, velocity_mm_per_min), gen being what
\* __init__ computes
Construct(gen) ==
    /\ tu' = gen.tu
    /\ height_carriage_mm' = gen.height
    /\ generator' = IF gen.ok THEN Constructed(gen) ELSE NoGenerator
    /\ element' = IF gen.ok THEN NoElement ELSE Raised("ZeroDivisionError")
    /\ yielded' = 0
    /\ hal' = NoHal
    /\ ncmd' = ncmd + 1

Build ==
    /\ ncmd < MaxMoves /\ (generator.state # "iterating" \/ hal.error # "")
    /\ \E delta_mm \in Deltas \cup FastDeltas : \E velocity_mm_per_min \in Velocities :
          /\ <<delta_mm, velocity_mm_per_min>> \in Commanded
          /\ Construct(PulseGeneratorLinear(delta_mm, velocity_mm_per_min, tu,
                                            height_carriage_mm, AUTO_VELOCITY_ADJUSTMENT))
    /\ UNCHANGED <<position, local, aliased, absoluteCoordinates, convertCoordinates,
                   plane, velocity, heaters, running, fan_state, AUTO_VELOCITY_ADJUSTMENT,
                   call, line, result, error, answer, log, parser, aabb>>

\* hal.move(generator) starts: "for" calls iter(generator) first
Iter ==
    /\ generator.state \in {"built", "exhausted"} /\ generator.passes < MaxPasses
    /\ generator' = iter(generator)
    /\ element' = NoElement
    /\ yielded' = 0
    /\ hal' = NoHal
    /\ UNCHANGED <<gmachine, parser, aabb>>

\* next(generator), el being what it gives, and the body of move's loop
Yield(el) ==
    /\ element' = el
    /\ hal' = move(hal, generator, el)
    /\ generator' = next(generator, el)
    /\ yielded' = IF el.kind \in {"direction", "pulses"} THEN yielded + 1 ELSE yielded

Step ==
    /\ generator.state = "iterating" /\ hal.error = ""
    /\ Yield(next_element(generator))
    /\ UNCHANGED <<gmachine, parser, aabb>>

NextPulses == Build \/ Iter \/ Step

SpecPulses == InitPulses /\ [][NextPulses]_vars

-----------------------------------------------------------------------------
(* Properties.  A step that makes a call leaves in the primed variables    *)
(* call, line, result, error and log what the call was and how it went.    *)

\* the step is a do_command of a linear move (G0, G1 or a token-less
\* coordinate line)
MoveStep == call' = "do_command" /\ Selected(line') \in {"G0", "G1"}

\* the position line g asks for, before rounding to steps
Target(g) ==
    IF absoluteCoordinates
    THEN Add(coordinates(g, Minus(position, local), convertCoordinates), local)
    ELSE Add(position, coordinates(g, Zero, convertCoordinates))

\* the velocity handed to _move_linear for line g
MoveVelocity(g) ==
    IF Selected(g) = "G0"
    THEN _maximum_compatible_vel(has(g, "X"), has(g, "Y"), has(g, "Z"), has(g, "E"),
                                 has(g, "Q"), has(g, "N"), has(g, "A"), has(g, "B"))
    ELSE get(g, "F", velocity)

InEnvelope(p) == is_in_aabb(p, Zero, table)

\* C1: a do_command call that ends with a command error (GMachineException)
\* leaves every component of the machine state (position, frame offset,
\* absolute mode, unit scale, plane, feed rate, heater map, fan) as it was
C1_ErrorLeavesState ==
    [][(call' = "do_command" /\ result' = "error") => machine' = machine]_vars

C3_NegativeTargetRefused ==
    [][(/\ MoveStep
        /\ InEnvelope(position)
        /\ \/ Target(line').x < 0
           \/ Target(line').y < 0
           \/ Target(line').z < 0)
       => (result' = "error" /\ position' = position)]_vars

Named(g) == {k \in Axes : has(g, AxisLetter[k])}

Scaled(g, k) == g.p[AxisLetter[k]] * SubPerValue(k, convertCoordinates)

OnGrid(v) == v % Sub = 0

\* going from p0 to p1 is a whole number of steps and p1 is within half a
\* step of t: p1 is t rounded to the steps that can be reached from p0
RoundedTo(p0, p1, t) == OnGrid(p1 - p0) /\ 2 * Abs(p1 - t) <= Sub

\* C5 as stated: in absolute mode, after a successful linear move whose
\* named values lie on the step grid, position - frameOffset is
\* value x unitScale on every named axis and position is unchanged on the rest
C5_AbsoluteMoveExact ==
    [][(/\ MoveStep
        /\ absoluteCoordinates
        /\ result' = "ok"
        /\ \A k \in Named(line') : OnGrid(Scaled(line', k)))
       => \A k \in Axes :
             IF k \in Named(line')
             THEN position'[k] - local'[k] = Scaled(line', k)
             ELSE position'[k] = position[k]]_vars

\* C5 amended: the same when, on every named axis, the frame offset lies on
\* the step grid as well
C5_AbsoluteMoveOnGrid ==
    [][(/\ MoveStep
        /\ absoluteCoordinates
        /\ result' = "ok"
        /\ \A k \in Named(line') : OnGrid(Scaled(line', k)) /\ OnGrid(local[k]))
       => \A k \in Axes :
             IF k \in Named(line')
             THEN position'[k] - local'[k] = Scaled(line', k)
             ELSE position'[k] = position[k]]_vars

\* C5 witness: with a frame offset of -100 on every axis, the absolute move
\* to 101 on every axis ended at machine position 1
C5_Witness ==
    /\ call = "do_command"
    /\ line = GCode(NoCmd, AllAxes(404))
    /\ result = "ok"
    /\ absoluteCoordinates
    /\ local = [k \in Axes |-> -MM(k, 100)]
    /\ position = [k \in Axes |-> MM(k, 1)]

G92Step == call' = "do_command" /\ Selected(line') = "G92" /\ result' = "ok"

\* G92 as C7 states it: position stays; with coordinates the frame offset of
\* a named axis becomes position - value x unitScale and that of the other
\* axes stays; without coordinates the frame offset becomes position
G92Redefines ==
    G92Step =>
        /\ position' = position
        /\ IF has_coordinates(line')
           THEN \A k \in Axes :
                   local'[k] = IF k \in Named(line')
                               THEN position[k] - Scaled(line', k) ELSE local[k]
           ELSE local' = position

\* the step is a successful absolute move, in the frame a G92 has left
MoveAfterG92 ==
    /\ MoveStep
    /\ absoluteCoordinates
    /\ result' = "ok"

\* C7 as stated: G92 redefines the frame as above, and the absolute move
\* that follows it to logical coordinates c ends at c + frameOffset
C7_G92ThenMoveExact ==
    [][/\ G92Redefines
       /\ MoveAfterG92
            => \A k \in Named(line') : position'[k] = Scaled(line', k) + local[k]]_vars

\* C7 amended: G92 redefines the frame as above, and the absolute move that
\* follows it ends, on each named axis, a whole number of steps from where
\* it started and within half a step of c + frameOffset: at c + frameOffset
\* when that lies on the step grid
C7_G92ThenMoveRounded ==
    [][/\ G92Redefines
       /\ MoveAfterG92
            => \A k \in Named(line') :
                  /\ RoundedTo(position[k], position'[k], Scaled(line', k) + local[k])
                  /\ OnGrid(Scaled(line', k) + local[k])
                        => position'[k] = Scaled(line', k) + local[k]]_vars

\* C7 witness: after G92 E0.25 at the origin (frame offset -37.5 steps on
\* E) the absolute move to 1 on every axis succeeded
C7_Witness ==
    /\ call = "do_command"
    /\ line = GCode(NoCmd, AllAxes(4))
    /\ result = "ok"
    /\ absoluteCoordinates
    /\ local.e = -((MM("e", 1)) \div 4)
    /\ position.x = MM("x", 1)

\* the step is a reset() call or a successful M2/M30
ResetStep ==
    \/ call' = "reset"
    \/ call' = "do_command" /\ Selected(line') \in {"M2", "M30"} /\ result' = "ok"

\* after a reset: unit scale 1.0, absolute mode, plane XY, frame offset zero
ResetRestores ==
    ResetStep =>
        /\ convertCoordinates' = SCALE_DEN
        /\ absoluteCoordinates' = TRUE
        /\ plane' = "PLANE_XY"
        /\ local' = Zero

\* the step is a successful token-less coordinate line in the state a
\* reset leaves (whatever came before it)
MoveAfterReset ==
    /\ convertCoordinates = SCALE_DEN
    /\ absoluteCoordinates
    /\ plane = "PLANE_XY"
    /\ local = Zero
    /\ call' = "do_command"
    /\ command(line') = NoCmd
    /\ has_coordinates(line')
    /\ result' = "ok"

\* value x 1.0 of a named axis, in sub-steps
Plain(g, k) == g.p[AxisLetter[k]] * SubPerValue(k, SCALE_DEN)

\* C8 as stated: a reset restores the defaults above, and the token-less
\* move to v that follows it ends at machine position v
C8_ResetThenMoveExact ==
    [][/\ ResetRestores
       /\ MoveAfterReset
            => \A k \in Named(line') : position'[k] = Plain(line', k)]_vars

\* C8 amended: a reset restores the defaults above, and the token-less move
\* to v that follows it ends, on each named axis, a whole number of steps
\* from where it started and within half a step of v: at v when v lies on
\* the step grid
C8_ResetThenMoveRounded ==
    [][/\ ResetRestores
       /\ MoveAfterReset
            => \A k \in Named(line') :
                  /\ RoundedTo(position[k], position'[k], Plain(line', k))
                  /\ OnGrid(Plain(line', k)) => position'[k] = Plain(line', k)]_vars

\* C8 witness: a program end after a move: the defaults are back and the
\* machine is away from the origin
C8_Witness ==
    /\ call = "do_command"
    /\ Selected(line) \in {"M2", "M30"}
    /\ result = "ok"
    /\ convertCoordinates = SCALE_DEN
    /\ absoluteCoordinates
    /\ plane = "PLANE_XY"
    /\ local = Zero
    /\ position # Zero

\* C9: a successful M2/M30 without F leaves feedRate at its default, the
\* least of the per-axis maximum velocities
C9_ProgramEndResetsFeed ==
    [][(/\ call' = "do_command"
        /\ Selected(line') \in {"M2", "M30"}
        /\ ~has(line', "F")
        /\ result' = "ok")
       => velocity' = MAX_VELOCITY_MM_PER_MIN_N]_vars

C11_LowFeedRefused ==
    [][(call' = "do_command" /\ get(line', "F", velocity) < MIN_VELOCITY_MM_PER_MIN)
       => (/\ result' = "error"
           /\ error' = "feed speed too low"
           /\ log' = <<>>
           /\ machine' = machine
           /\ tu' = tu
           /\ height_carriage_mm' = height_carriage_mm)]_vars

\* C11 witness: in relative mode G90 F0 was refused for its feed rate and
\* the mode is still relative
C11_Witness ==
    /\ call = "do_command"
    /\ Selected(line) = "G90"
    /\ get(line, "F", velocity) < MIN_VELOCITY_MM_PER_MIN
    /\ result = "error"
    /\ error = "feed speed too low"
    /\ ~absoluteCoordinates

\* the step is a linear move that passes the feed-rate test and whose delta
\* rounds to zero on every axis
ZeroMove ==
    /\ MoveStep
    /\ get(line', "F", velocity) >= MIN_VELOCITY_MM_PER_MIN
    /\ round(Minus(Target(line'), position)) = Zero

\* C12 as stated: a move whose delta rounds to zero makes no collaborator
\* call, raises nothing and changes no component of the machine state, the
\* feed rate included
C12_ZeroMoveKeepsAll ==
    [][ZeroMove => (result' = "ok" /\ log' = <<>> /\ machine' = machine)]_vars

\* C12 amended: such a move makes no collaborator call, raises nothing and
\* changes nothing but the feed rate, which becomes the line's F when the
\* line carries one
C12_ZeroMoveKeepsAllButFeed ==
    [][ZeroMove
       => (/\ result' = "ok"
           /\ log' = <<>>
           /\ <<position', local', absoluteCoordinates', convertCoordinates', plane',
                heaters', fan_state', tu', height_carriage_mm'>>
                 = <<position, local, absoluteCoordinates, convertCoordinates, plane,
                     heaters, fan_state, tu, height_carriage_mm>>
           /\ velocity' = get(line', "F", velocity))]_vars

\* C12 witness: after G92 E0.25 the move G1 E0.25 F1000 had nothing to do
\* and left the feed rate at 1000
C12_Witness ==
    /\ call = "do_command"
    /\ line = GCode("G1", ("E" :> 1) @@ ("F" :> 1000))
    /\ result = "ok"
    /\ log = <<>>
    /\ position = Zero
    /\ local.e # 0
    /\ velocity = 1000

\* the least of the configured maximum velocities of the axes line g names
NamedLimit(g) ==
    CHOOSE v \in {MAX_VELOCITY_MM_PER_MIN[k] : k \in Named(g)} :
        \A k \in Named(g) : v <= MAX_VELOCITY_MM_PER_MIN[k]

\* C13: the velocity of a rapid move (G0) that names an axis, as given to
\* the generator and to hal.move, is the least of the maximum velocities of
\* the axes the line names
C13_RapidUsesNamedAxes ==
    [][(call' = "do_command" /\ Selected(line') = "G0" /\ Named(line') # {})
       => \A i \in DOMAIN log' :
             log'[i].op \in {"PulseGeneratorLinear", "move"}
                => log'[i].velocity = NamedLimit(line')]_vars

\* the step is a successful home command
HomeStep == call' = "do_command" /\ Selected(line') = "G28" /\ result' = "ok"

\* C14: a successful G28 that names no axis letter leaves X = Y = 0,
\* N = A = 0 and Z at the top of the table
C14_HomeAllByDefault ==
    [][(HomeStep /\ Named(line') = {})
       => (/\ position'.x = 0 /\ position'.y = 0
           /\ position'.n = 0 /\ position'.a = 0
           /\ position'.z = MM("z", TABLE_SIZE_Z_MM))]_vars

\* the step is safe_zero with every flag set, run to its end: called
\* directly, or by a G28 that names X, Y, N and A
ZeroStep ==
    \/ call' = "safe_zero" /\ result' = "ok"
    \/ HomeStep /\ {"x", "y", "n", "a"} \subseteq Named(line')

\* d is the length sqrt(u^2 + v^2 + w^2) rounded to a whole number of
\* steps: a multiple of a step within half a step of that length
RoundedNorm(d, u, v, w) ==
    /\ OnGrid(d)
    /\ d >= 0
    /\ LET s == WAdd(WAdd(WSq(2 * u), WSq(2 * v)), WSq(2 * w))
       IN  /\ (2 * d >= Sub => WLeq(WSq(2 * d - Sub), s))
           /\ WLeq(s, WSq(2 * d + Sub))

C16_ProbeAfterMoves ==
    [][(call' = "do_command" /\ Selected(line') = "G28")
       => /\ \A i \in DOMAIN log' :
                log'[i].op = "calibrate"
                   => /\ i = Len(log')
                      /\ i > 1
                      /\ log'[i - 1].op = "join"
                      /\ \A j \in 1..(i - 2) : log'[j].op \in {"PulseGeneratorLinear", "move"}
                      /\ Cardinality({j \in 1..i : log'[j].op = "PulseGeneratorLinear"})
                            = Cardinality({j \in 1..i : log'[j].op = "move"})
                      /\ (~log'[i].returned
                            => result' = "error" /\ error' = "failed to calibrate")
                      /\ (log'[i].returned => result' = "ok")
          /\ (result' = "ok"
                => \E i \in DOMAIN log' : log'[i].op = "calibrate" /\ log'[i].returned)
          /\ (result' = "error" /\ error' = "failed to calibrate"
                => \E i \in DOMAIN log' : log'[i].op = "calibrate" /\ ~log'[i].returned)]_vars

\* C16 witness: a G28 made its homing moves, waited, probed, and failed
\* because the probe returned false
C16_Witness ==
    /\ call = "do_command"
    /\ Selected(line) = "G28"
    /\ result = "error"
    /\ error = "failed to calibrate"
    /\ Len(log) >= 4
    /\ log[Len(log) - 2].op = "move"
    /\ log[Len(log) - 1].op = "join"
    /\ log[Len(log)].op = "calibrate"

\* C17: a G4 without P or with a negative P ends with a command error and
\* no collaborator call (no hal.join, no sleep); with P >= 0 it calls
\* hal.join, then sleeps P seconds, and nothing else; either way position,
\* frame offset, absolute mode, unit scale and plane are as they were
C17_DwellWaitsThenSleeps ==
    [][(/\ call' = "do_command"
        /\ Selected(line') = "G4"
        /\ get(line', "F", velocity) >= MIN_VELOCITY_MM_PER_MIN)
       => /\ IF ~has(line', "P") \/ get(line', "P", 0) < 0
             THEN result' = "error" /\ log' = <<>>
             ELSE /\ result' = "ok"
                  /\ log' = <<[op |-> "join"],
                              [op |-> "sleep", pause |-> line'.p["P"]]>>
          /\ <<position', local', absoluteCoordinates', convertCoordinates', plane'>>
                = <<position, local, absoluteCoordinates, convertCoordinates, plane>>]_vars

\* C17 witness: away from the origin, a G4 P1 has waited for the moves and
\* then slept one second
C17_Witness ==
    /\ call = "do_command"
    /\ line = GCode("G4", "P" :> 1)
    /\ result = "ok"
    /\ Len(log) = 2
    /\ log[1].op = "join"
    /\ log[2] = [op |-> "sleep", pause |-> 1]
    /\ position # Zero

\* the step is a heat command (M104, M109, M140, M190) that passes the
\* feed-rate test
HeatStep ==
    /\ call' = "do_command"
    /\ Selected(line') \in {"M104", "M109", "M140", "M190"}
    /\ get(line', "F", velocity) >= MIN_VELOCITY_MM_PER_MIN

\* the heater a heat command is for, and that heater's own maximum
HeaterOf(g) == IF Selected(g) \in {"M104", "M109"} THEN "HEATER_EXTRUDER" ELSE "HEATER_BED"

MaximumOf(h) == IF h = "HEATER_EXTRUDER" THEN EXTRUDER_MAX_TEMPERATURE ELSE BED_MAX_TEMPERATURE

\* line g carries S = t with t = 0 or MIN_TEMPERATURE <= t <= the maximum
\* of its heater
InRange(g) ==
    /\ has(g, "S")
    /\ \/ g.p["S"] = 0
       \/ MIN_TEMPERATURE <= g.p["S"] /\ g.p["S"] <= MaximumOf(HeaterOf(g))

\* the heater has the controller and the target it had
HeaterKept(h) ==
    /\ heaters'[h] = heaters[h]
    /\ running'[h] = running[h]
    /\ \A i \in DOMAIN log' : log'[i].op \notin {"heater_stop", "heater_start"}

\* C18 as stated: a heat command succeeds exactly when its S is in range,
\* and one that is refused leaves the heater's controller and target as
\* they were
C18_HeatAcceptedIffInRange ==
    [][HeatStep
       => /\ result' = "ok" <=> InRange(line')
          /\ result' # "ok" => (result' = "error" /\ HeaterKept(HeaterOf(line')))]_vars

\* C18 amended: a heat command succeeds exactly when its S is in range and
\* the sensor of its heater can be read; a missing S or an S out of range is
\* refused before any collaborator call, an unreadable sensor right after
\* the reading, and in each case the heater's controller and target are as
\* they were
C18_HeatAcceptedIffInRangeAndRead ==
    [][HeatStep
       => /\ ~InRange(line') => (result' = "error" /\ log' = <<>>)
          /\ InRange(line')
                => /\ Len(log') >= 1
                   /\ log'[1].op = "measure"
                   /\ log'[1].heater = HeaterOf(line')
                   /\ result' = "ok" <=> log'[1].read
                   /\ ~log'[1].read
                         => (/\ result' = "error"
                             /\ error' = "can not measure temperature"
                             /\ Len(log') = 1)
                   /\ (log'[1].read /\ line'.p["S"] # 0)
                         => heaters'[HeaterOf(line')] = line'.p["S"]
          /\ result' # "ok" => (result' = "error" /\ HeaterKept(HeaterOf(line')))]_vars

\* C18 witness: with the bed heated to 40, M140 S200 (within the
\* extruder's maximum, above the bed's) was refused and the bed's target is
\* still 40
C18_Witness ==
    /\ call = "do_command"
    /\ line = GCode("M140", "S" :> 200)
    /\ result = "error"
    /\ error = "bad temperature"
    /\ heaters["HEATER_BED"] = MIN_TEMPERATURE
    /\ running["HEATER_BED"] = 1

\* the index of the first entry of log l with operation op for heater h,
\* 0 when there is none
FirstOf(l, op, h) ==
    IF \E i \in DOMAIN l : l[i].op = op /\ l[i].heater = h
    THEN CHOOSE i \in DOMAIN l :
             /\ l[i].op = op /\ l[i].heater = h
             /\ \A j \in 1..(i - 1) : ~(l[j].op = op /\ l[j].heater = h)
    ELSE 0

\* C19: no heater ever has more than one controller running, and a
\* controller that runs is the one the map keeps; a heat command that
\* succeeds stops the controller the map kept, if any, before it starts a
\* new one, leaves exactly one running for a target other than 0 and none,
\* with a target that reads 0, for a target of 0; after release() no
\* controller runs
C19_OneControllerPerHeater ==
    [][/\ \A h \in DOMAIN running' :
             /\ running'[h] <= 1
             /\ running'[h] = 1 => heaters'[h] # 0
       /\ (HeatStep /\ result' = "ok")
             => LET h == HeaterOf(line')
                    t == line'.p["S"]
                IN  /\ heaters[h] # 0
                          => /\ FirstOf(log', "heater_stop", h) > 0
                             /\ t # 0 => FirstOf(log', "heater_stop", h)
                                             < FirstOf(log', "heater_start", h)
                    /\ t # 0 => (running'[h] = 1 /\ get_target_temperature(
                                     [heaters |-> heaters'], h) = t)
                    /\ t = 0 => (running'[h] = 0 /\ get_target_temperature(
                                     [heaters |-> heaters'], h) = 0)
       /\ call' = "release"
             => /\ \A h \in DOMAIN running' : running'[h] = 0
                /\ \A h \in DOMAIN heaters :
                      heaters[h] # 0 => FirstOf(log', "heater_stop", h) > 0]_vars

\* C19 witness: a heat command has replaced the running extruder
\* controller by a new one, stopping the old one first
C19_Witness ==
    /\ call = "do_command"
    /\ line = GCode("M109", "S" :> 200)
    /\ result = "ok"
    /\ FirstOf(log, "heater_stop", "HEATER_EXTRUDER") > 0
    /\ FirstOf(log, "heater_stop", "HEATER_EXTRUDER")
          < FirstOf(log, "heater_start", "HEATER_EXTRUDER")
    /\ running["HEATER_EXTRUDER"] = 1
    /\ heaters["HEATER_EXTRUDER"] = 200

\* the states passed to hal.fan_control in log l, in order
RECURSIVE FanCalls(_)
FanCalls(l) ==
    IF l = <<>> THEN <<>>
    ELSE IF Head(l).op = "fan_control" THEN <<Head(l).state>> \o FanCalls(Tail(l))
    ELSE FanCalls(Tail(l))

\* C20: after every call fanOn is the last value the call passed to
\* hal.fan_control, and what it was when the call passed none; a successful
\* M106 turns the fan on when S is absent or not 0 and off when S is 0, a
\* successful M107 turns it off, a successful extruder heat command with a
\* target other than 0 turns it on (auto-fan is enabled), and one with a
\* target of 0, or any bed heat command, leaves it as it was
C20_FanFollowsLastCall ==
    [][call' # ""
       => /\ fan_state' = IF FanCalls(log') = <<>> THEN fan_state
                          ELSE FanCalls(log')[Len(FanCalls(log'))]
          /\ (call' = "do_command" /\ result' = "ok")
                => /\ Selected(line') = "M106"
                         => fan_state' = (~has(line', "S") \/ line'.p["S"] # 0)
                   /\ Selected(line') = "M107" => fan_state' = FALSE
                   /\ (Selected(line') \in {"M104", "M109"} /\ line'.p["S"] # 0 /\ AUTO_FAN_ON)
                         => fan_state' = TRUE
                   /\ (Selected(line') \in {"M104", "M109"} /\ line'.p["S"] = 0)
                         => fan_state' = fan_state
                   /\ Selected(line') \in {"M140", "M190"} => fan_state' = fan_state]_vars

\* C20 witness: the extruder heater was switched off with the fan running,
\* and the fan still runs
C20_Witness ==
    /\ call = "do_command"
    /\ line = GCode("M104", "S" :> 0)
    /\ result = "ok"
    /\ FirstOf(log, "heater_stop", "HEATER_EXTRUDER") > 0
    /\ heaters["HEATER_EXTRUDER"] = 0
    /\ fan_state

-----------------------------------------------------------------------------
(* Commands outside the dispatch table, circular moves, lines without a    *)
(* command token.                                                          *)

\* every component of the machine state, the carriage bookkeeping of the
\* pulse generator included, is as before and nothing went to a collaborator
Untouched == machine' = machine /\ tu' = tu /\ height_carriage_mm' = height_carriage_mm
             /\ running' = running /\ log' = <<>>

\* C21: a do_command call with a command that is not in the dispatch table
\* ends with a command error and leaves position, frame offset, mode flags
\* and feed rate as they were, also when the line carries coordinates or F
C21_UnknownCommandRefused ==
    [][(call' = "do_command" /\ line' # None /\ Selected(line') \notin Known)
          => result' = "error" /\ Untouched]_vars

\* an unknown command with F has been refused while the feed rate was another
C21_Witness ==
    /\ call = "do_command" /\ line = GCode("M99", "F" :> 1000)
    /\ result = "error" /\ error = "unknown command" /\ velocity = 500

AsG1(g) == GCode("G1", g.p)

\* the step is a do_command call of a line without command token
TokenLess == call' = "do_command" /\ line' # None /\ command(line') = NoCmd

\* C23: a line with an axis letter and no command token ends exactly as
\* the G1 line with the same words would have ended from the same state
\* (same result, error, collaborator calls and state); a line with neither
\* token nor axis letter that passes the feed-rate check calls no
\* collaborator and changes nothing but the feed rate, which becomes its F
\* (or stays); do_command(None) returns nothing and changes nothing
C23_TokenLessIsG1 ==
    [][/\ (TokenLess /\ has_coordinates(line'))
          => \E R \in {do_command(AsG1(line'),
                                   G1(Frame, read_delta(Frame, AsG1(line')),
                                      read_velocity(Frame, AsG1(line')), env)) :
                        env \in Envs("G1")} :
                Return("do_command", line', R)
       /\ (/\ TokenLess /\ ~has_coordinates(line')
           /\ get(line', "F", velocity) >= MIN_VELOCITY_MM_PER_MIN)
          => /\ result' = "ok" /\ answer' = NoAnswer /\ log' = <<>>
             /\ velocity' = get(line', "F", velocity)
             /\ <<position, local, absoluteCoordinates, convertCoordinates, plane,
                   heaters, running, fan_state, tu, height_carriage_mm>>' =
                <<position, local, absoluteCoordinates, convertCoordinates, plane,
                  heaters, running, fan_state, tu, height_carriage_mm>>
       /\ (call' = "do_command" /\ line' = None)
          => result' = "ok" /\ answer' = NoAnswer /\ Untouched]_vars

\* a token-less E line has moved the extruder in relative mode
C23_Witness ==
    /\ call = "do_command" /\ line = GCode(NoCmd, "E" :> 1) /\ result = "ok"
    /\ ~absoluteCoordinates /\ log # <<>> /\ position.e # 0
-----------------------------------------------------------------------------
(* The parser: lines without gcode, refused lines, values.                 *)

\* l[i..j] is a comment in parentheses
InlineComment(l, i, j) ==
    i < j /\ l[i] = "(" /\ l[j] = ")" /\ \A k \in i + 1..j - 1 : l[k] \notin {")", "\n"}

\* l[i..j] is a comment from ';' to the end of the line
LineComment(l, i, j) ==
    /\ l[i] = ";"
    /\ \A k \in i + 1..j : l[k] # "\n"
    /\ j = Len(l) \/ l[j + 1] = "\n"

RECURSIVE OnlyComments(_, _)
\* from index i on l is white space and comments
OnlyComments(l, i) ==
    \/ i > Len(l)
    \/ i <= Len(l) /\ l[i] \in Space /\ OnlyComments(l, i + 1)
    \/ \E j \in i..Len(l) :
          (InlineComment(l, i, j) \/ LineComment(l, i, j)) /\ OnlyComments(l, j + 1)

RECURSIVE PercentFirst(_, _)
\* from index i on, the first character of l outside white space and
\* comments is '%'
PercentFirst(l, i) ==
    /\ i <= Len(l)
    /\ \/ l[i] = "%"
       \/ l[i] \in Space /\ PercentFirst(l, i + 1)
       \/ \E j \in i..Len(l) :
             (InlineComment(l, i, j) \/ LineComment(l, i, j)) /\ PercentFirst(l, j + 1)

\* C24: parse_line returns None, and raises nothing, for every line that is
\* white space and comments only and for every line whose first character
\* outside white space and comments is '%'
C24_BlankLinesGiveNone ==
    (parsed # NotParsed /\ (OnlyComments(text, 1) \/ PercentFirst(text, 1)))
        => parsed = ParsedNone

\* a line of an inline comment holding a letter, followed by a line comment
C24_Witness == text = <<"(", "x", ")", ";">> /\ parsed = ParsedNone

\* some letter occurs twice in l
Twice(l) ==
    \E i, j \in DOMAIN l : i < j /\ l[i] = l[j] /\ l[i] \in Range(Letters)

Holds(l, c) == \E i \in DOMAIN l : l[i] = c

\* a letter twice, G with M, or N with M
Clashing(l) ==
    Twice(l) \/ (Holds(l, "G") /\ Holds(l, "M")) \/ (Holds(l, "N") /\ Holds(l, "M"))

\* C25 as stated: parse_line raises a parse error for every line in which
\* a letter occurs twice (whatever its case), or G and M both occur, or N
\* and M both occur
C25_ClashingLinesRefused ==
    (parsed # NotParsed /\ Clashing(upper(text))) => parsed.kind = "GCodeException"

\* the line in upper case without its white space and comments
Remaining(l) == clean(upper(l))

\* C25, amended: parse_line raises a parse error for every line that,
\* once white space and comments are removed, is not empty, does not begin
\* with '%', and has a letter twice (whatever its case), G with M, or N
\* with M
C25_ClashingWordsRefused ==
    (/\ parsed # NotParsed
     /\ Remaining(text) # <<>> /\ Remaining(text)[1] # "%"
     /\ Clashing(Remaining(text)))
        => parsed.kind = "GCodeException"

\* x and X in one line
C25_Witness ==
    /\ text = <<"x", "1", "X", "1">>
    /\ parsed = GCodeException("duplicated gcode entries")

\* v is a decimal number with an optional sign: digits with at most one
\* dot, one digit at least
Decimal(v) ==
    LET body == IF v[1] \in {"-", "+"} THEN Tail(v) ELSE v
    IN  /\ \A i \in DOMAIN body : body[i] \in Range(Digits) \cup {"."}
        /\ \E i \in DOMAIN body : body[i] \in Range(Digits)
        /\ Cardinality({i \in DOMAIN body : body[i] = "."}) <= 1

\* C26: every value of a line parse_line accepts is a well-formed decimal
\* number, and reading a word of the accepted line gives a number
C26_ValuesWellFormed ==
    parsed.kind = "GCode"
        => /\ \A c \in DOMAIN parsed.params : Decimal(parsed.params[c])
           /\ got.kind \in {"", "float"}
-----------------------------------------------------------------------------
(* The bounding box.                                                       *)

\* v lies between u and w, whichever is the lower
Between(v, u, w) == (u <= v /\ v <= w) \/ (w <= v /\ v <= u)

\* C27: is_in_aabb(p1, p2) is true for every point whose x, y, z and n lie
\* between those of p1 and p2, the corners included, false for a point
\* whose x, y or z lies outside, and the same with p1 and p2 swapped
C27_BoxContainsItsPoints ==
    aabb.returned
        => /\ (\A k \in {"x", "y", "z", "n"} : Between(aabb.c[k], aabb.p1[k], aabb.p2[k]))
                => aabb.inside = TRUE
           /\ (\E k \in {"x", "y", "z"} : ~Between(aabb.c[k], aabb.p1[k], aabb.p2[k]))
                => aabb.inside = FALSE
           /\ aabb.inside = is_in_aabb(aabb.c, aabb.p2, aabb.p1)

-----------------------------------------------------------------------------
(* Consuming a linear pulse generator (SpecPulses).                        *)

\* a step from a state where the generator is being consumed is a next()
Consuming == generator.state = "iterating" /\ hal.error = ""

\* the element next() has just returned carries a time on axis k
Carries(k) == element'.values[k] # <<>>

\* the first element is the direction element, and no later one is
DirectionFirst ==
    /\ yielded = 0 => element'.kind = "direction"
    /\ yielded > 0 => element'.kind \in {"pulses", "StopIteration"}

\* a timestamp element carries a time, the same on all axes that carry one
TimestampsAgree ==
    element'.kind = "pulses" =>
        /\ \E k \in Axes : Carries(k)
        /\ \A j, k \in Axes : Carries(j) /\ Carries(k) => element'.values[j] = element'.values[k]

\* the direction element has the sign of the move, negated on inverted axes
DirectionOfMove ==
    element'.kind = "direction" =>
        \A k \in Axes : generator.delta[k] # 0 =>
            element'.values[k] = IF STEPPER_INVERTED[k] THEN -Sign(generator.delta[k])
                                 ELSE Sign(generator.delta[k])

\* C28: consuming a linear pulse generator yields a direction element first
\* and exactly once; every later element is a timestamp element in which at
\* least one axis carries a timestamp and all axes that carry one carry the
\* same value; the direction element has, per axis, the sign of the move,
\* negated for each axis configured as inverted.
C28_DirectionThenTimestamps ==
    [][Consuming => DirectionFirst /\ TimestampsAgree /\ DirectionOfMove]_vars

\* the sum of the values of all axes
SumOver(f) == f.x + f.y + f.z + f.e + f.q + f.n + f.a + f.b

\* a timestamp element advances the pulse counter of some axis, and no
\* counter passes the total of its axis
CountersAdvance ==
    /\ element'.kind = "pulses" =>
          \E k \in Axes : generator'.iteration[k] > generator.iteration[k]
    /\ \A k \in Axes : generator'.iteration[k] <= generator'.total_pulses[k]

\* every axis reports finished: __linear gives None for all of them
Finished == Pending(generator) = {}

\* the sequence ends within 1 + the total pulses of all axes, and exactly
\* when every axis reports finished
EndsWhenFinished ==
    /\ yielded' <= 1 + SumOver(generator.total_pulses)
    /\ generator'.state # "iterating" <=> generator.directed /\ Finished

\* C29: iterating a linear pulse generator always terminates: each timestamp
\* element advances the pulse counter of at least one axis, no axis counter
\* ever exceeds that axis's total pulse count, and the sequence ends after at
\* most 1 + (sum of the per-axis total pulse counts) elements, exactly when
\* every axis reports finished.
C29_IterationEndsWhenFinished ==
    [][Consuming => CountersAdvance /\ EndsWhenFinished]_vars

\* C30: for a linear move, the number of step pulses emitted on each of the
\* 8 axes equals |d| x steps-per-unit of that axis, d being the grid-rounded
\* delta commanded on that axis, X, Y and Z included.
C30_PulsesMatchDelta ==
    generator.state = "exhausted" =>
        \A k \in Axes : generator.iteration[k] = Pulses(generator.delta[k])

\* the time the timestamp element el carries
TimeOf(el) == MaxTime(el)

\* a timestamp element is not earlier than the timestamp element before it
NeverBackwards ==
    element.kind = "pulses" /\ element'.kind = "pulses" => TimeOf(element') >= TimeOf(element)

\* on each axis the time of a pulse is later, in whole microseconds, than
\* the time of the pulse before it on that axis
LaterOnEachAxis ==
    element'.kind = "pulses" =>
        \A k \in Axes : Carries(k) /\ hal.l[k] # <<>> => element'.values[k][1] > hal.l[k][1]

\* C31: timestamps never go backwards along the sequence of a pulse
\* generator: the time of each timestamp element is >= the time of the
\* timestamp element before it, and on each axis successive pulse times
\* differ by more than zero at microsecond resolution.
C31_TimestampsIncrease ==
    [][Consuming => NeverBackwards /\ LaterOnEachAxis]_vars

Exhausted == generator.state = "exhausted"

Proportional(v, u) ==
    \A j, k \in Axes : Abs(Abs(v[j]) * Abs(u[k]) - Abs(v[k]) * Abs(u[j])) <= Abs(u[j]) + Abs(u[k])

\* the velocities v are the velocities u scaled down by one factor so that
\* the axis furthest over its maximum is at its maximum
CommonFactor(v, u) ==
    (\E k \in Axes : Abs(u[k]) > MAX_VELOCITY_MM_PER_MIN[k]) =>
        /\ Proportional(v, u)
        /\ \A k \in Axes : Abs(v[k]) <= MAX_VELOCITY_MM_PER_MIN[k]
        /\ \E k \in Axes : Abs(v[k]) = MAX_VELOCITY_MM_PER_MIN[k]

\* the velocities gen has are those of the unadjusted generator plain,
\* scaled by a common factor
AdjustedFrom(gen, plain) == plain.ok => CommonFactor(gen.max_velocity, plain.max_velocity)

\* a step that constructs a generator with the auto-adjustment enabled
Adjusting == AUTO_VELOCITY_ADJUSTMENT /\ ncmd' = ncmd + 1 /\ generator'.state = "built"

\* C33: with velocity auto-adjustment enabled, whenever the realized peak
\* velocity of any axis exceeds that axis's configured maximum, the
\* velocities of all axes are multiplied by one common factor, chosen so that
\* the worst-offending axis equals its maximum and no axis exceeds its
\* maximum.
C33_AdjustedByCommonFactor ==
    [][Adjusting =>
         \A c \in Commanded : c[1] = generator'.delta =>
             AdjustedFrom(generator', PulseGeneratorLinear(c[1], c[2], tu, height_carriage_mm,
                                                           FALSE))]_vars

-----------------------------------------------------------------------------
(* Instances of GMachine in one process.                                   *)

\* what the caller and the hardware see of a command that ended with frame R
Outcome(R) == <<R.position, R.status, R.error, R.log>>

\* the frame of an instance for which no generator was ever built
Untravelled(R) == [R EXCEPT !.tu = tu_start, !.height = height_start]

\* the linear moves that are tried on a new instance
FirstMoves == Selecting({"G1"})

\* C34: machine state is not shared between instances: a freshly created
\* instance behaves the same whatever earlier instances did.  When GMachine()
\* has returned, every linear move has on the new instance the outcome
\* (position, error, what the hardware is handed) that it has on an instance
\* created before any other has moved.
C34_FreshInstanceBehavesTheSame ==
    [][call' = "GMachine"
       => \A g \in FirstMoves : \A env \in Envs("G1") :
             \E R \in {Frame'} :
                \E here \in {G1(R, read_delta(R, g), read_velocity(R, g), env)} :
                   \E first \in {G1(Untravelled(R), read_delta(R, g),
                                     read_velocity(R, g), env)} :
                      Outcome(here) = Outcome(first)]_vars

-----------------------------------------------------------------------------
(* Which commands change which part of the state.                          *)

\* the hal.move calls of a call that returned: the last one raised when the
\* call ended with an exception other than GMachineException right after it
Committed(lg, res) ==
    IF lg # <<>> /\ lg[Len(lg)].op = "move" /\ res = "crash"
    THEN SelectSeq(SubSeq(lg, 1, Len(lg) - 1), LAMBDA o : o.op = "move")
    ELSE SelectSeq(lg, LAMBDA o : o.op = "move")

RECURSIVE travelled(_)
\* the sum of the deltas of the moves
travelled(moves) ==
    IF moves = <<>> THEN Zero ELSE Add(moves[1].delta, travelled(Tail(moves)))

\* the step is do_command for a command in cs
Doing(cs) == call' = "do_command" /\ Selected(line') \in cs

\* the step is reset(), called directly or by M2/M30
Resetting == call' = "reset" \/ Doing({"M2", "M30"})

\* C35: each state component changes only through its own commands.  The
\* position after a call is the position before it plus the grid-rounded
\* deltas of the moves that hal.move accepted, no component of it being
\* written otherwise; the plane changes only by G17/G18/G19 or reset, the
\* unit scale only by G20/G21 or reset, the frame offset only by G53/G92 or
\* reset, the absolute mode only by G90/G91 or reset.
C35_OwnCommandsOnly ==
    [][/\ call' # "" => position' = Add(position, travelled(Committed(log', result')))
       /\ plane' # plane => Doing({"G17", "G18", "G19"}) \/ Resetting
       /\ convertCoordinates' # convertCoordinates => Doing({"G20", "G21"}) \/ Resetting
       /\ local' # local => Doing({"G53", "G92"}) \/ Resetting
       /\ absoluteCoordinates' # absoluteCoordinates => Doing({"G90", "G91"}) \/ Resetting]_vars

-----------------------------------------------------------------------------
(* is_in_aabb for a nozzle at neither of its two positions (SpecAabb).     *)

\* the point's n is the n of neither corner
BetweenPositions == aabb.returned /\ aabb.c.n \notin {aabb.p1.n, aabb.p2.n}

\* x^2 + y^2 <= max(p1.x, p2.x)^2, x as it is
InCircle == ~SumSqGt(aabb.c.x, ToLenX("y", aabb.c.y), Max2(aabb.p1.x, aabb.p2.x))

\* the components in ks lie between those of the corners, inclusive
InBounds(ks) == \A k \in ks : Between(aabb.c[k], aabb.p1[k], aabb.p2[k])

-----------------------------------------------------------------------------
(* hal_virtual.move taking the direction element (SpecPulses).             *)

\* the direction the element el carries for axis k, the inversion of the
\* stepper taken back
Carried(el, k) == IF STEPPER_INVERTED[k] THEN -el.values[k] ELSE el.values[k]

\* C37: when the virtual hardware's move consumes a linear generator, the
\* direction it counts steps with on each of the 8 axes is the one the
\* direction element carries for that axis, so on every axis that moves its
\* sign is the sign of the delta, A and B included, and no assertion fails
\* on the direction element.
C37_DirectionsOfAllAxes ==
    [][Consuming /\ element'.kind = "direction"
       => /\ \A k \in Axes : hal'.direction[k] = Carried(element', k)
          /\ \A k \in {"e", "q", "n", "a", "b"} :
                generator.delta[k] # 0 => hal'.direction[k] = Sign(generator.delta[k])
          /\ hal'.error = ""]_vars

-----------------------------------------------------------------------------
(* The tool position the linear interpolator accumulates.                  *)

\* C38: after any sequence of commands, rejected ones included, the tool
\* position tu that PulseGeneratorLinear accumulates agrees with the
\* position of the machine: tu (x, y, z) minus position (x, y, z) keeps its
\* initial value (0, 0, top of travel); a generator built for a move that
\* the velocity check or hal.move then rejects does not leave tu advanced.
C38_AccumulatorFollowsPosition ==
    \A k \in {"x", "y", "z"} : tu[k] - position[k] = tu_start[k]

-----------------------------------------------------------------------------
(* G93 pass by pass (SpecHoming).                                          *)

\* do_command(G93) has returned or raised
Homed == call = "do_command" /\ command(line) = "G93"

\* how G93 may end: at A = 45 in absolute mode, or with the envelope error
\* once the steps from A = 90 have come down to less than a step above 0,
\* or with the exception of hal.move
HomedOrRefused ==
    \/ result = "ok" /\ absoluteCoordinates /\ position.a = MM("a", 45)
    \/ /\ result = "error" /\ error = "out of effective area"
       /\ 0 <= position.a /\ position.a < -RoundStep(PROBE_STEP.a)
    \/ result = "crash"

====
